---- MODULE Spec2Model ----
(***************************************************************************)
(* BeeLive dashboard: threshold classification, gauge layout derivation,   *)
(* threshold auto-adjustment, toast notifications and the handling of the  *)
(* events pushed over the web socket.                                      *)
(*                                                                         *)
(* Numbers are modelled as integers in the metric's own unit (ppm, %, dB,  *)
(* g, degrees).  Percent positions are exact rationals [num, den] with     *)
(* den > 0, so that the comparisons of the gauge card are exact.           *)
(***************************************************************************)
EXTENDS Integers, Sequences, FiniteSets, TLC

VARIABLES
    metric,             \* the metric whose derived store is observed
    rawValue,           \* telemetry.store.ts: the metric's writable raw value store
    thresholdsStore,    \* telemetry.store.ts: thresholdsStore (NULL or the metric's six bounds)
    metricData,         \* telemetry.store.ts: the value of the metric's derived store
    snapshot,           \* a value a subscriber read from the derived store, with the store contents then
    variant,            \* metric-threshold.svelte: which version of the component is mounted
    id,                 \* metric-threshold.svelte: prop id
    unit,               \* metric-threshold.svelte: prop unit
    min,                \* metric-threshold.svelte: prop min
    max,                \* metric-threshold.svelte: prop max
    normalRange,        \* metric-threshold.svelte: $state normalRange
    warningRange,       \* metric-threshold.svelte: $state warningRange
    criticalRange,      \* metric-threshold.svelte: $state criticalRange
    validationErrors,   \* metric-threshold.svelte: $state validationErrors
    bound,              \* metric-threshold.svelte: the six $bindable props of the parent
    sliderInput,        \* metric-threshold.svelte: the last value the warning or critical slider reported
    showConfirmDialog,  \* configurations page: $state showConfirmDialog
    updating,           \* configurations page: $state updating
    originalMetrics,    \* configurations page: $state originalMetrics (the metric's entry)
    request,            \* configurations page: the updateThresholds request in flight, or NULL
    response,           \* configurations page: the outcome of the last updateThresholds request
    weightMonitoring,   \* configurations page: $state weightMonitoring.weightWarningDailyLossG
    originalWeightMonitoring, \* configurations page: the same field of $state originalWeightMonitoring
    layout,             \* one call of the percent and segment functions: arguments and result
    toasts,             \* toast store: the toast list of the exported toastStore
    freshToasts,        \* toast store: the toast list of the store made by the last convenience call
    nextToastId,        \* toast store: the next id crypto.randomUUID() hands out
    called,             \* toast store: the last call made on toastStore and the id it returned
    mounted,            \* toast-provider.svelte: the provider is mounted and subscribed
    providerToasts,     \* toast-provider.svelte: $state toasts
    dismissTimers,      \* toast-provider.svelte: ids with a pending auto-dismiss timer
    lastTelemetry,      \* websocket.store.ts: state.lastTelemetry
    dispatched,         \* websocket.service.ts: the detail of the last event dispatched on window
    received,           \* websocket.service.ts: the telemetry payloads handled so far, in arrival order
    telemetryStores,    \* telemetry.store.ts: the raw value stores the dashboard feeds
    pages,              \* dashboard page: how far each instance of the page has come
    listening,          \* window: the page instances whose 'telemetry-update' listener is registered
    status,             \* websocket.store.ts: state.status
    error,              \* websocket.store.ts: state.error
    socket,             \* websocket.service.ts: this.socket (0 is null, else the socket's number)
    sockets,            \* the state of every Socket that io() has returned so far
    reconnectAttempts,  \* websocket.service.ts: this.reconnectAttempts
    inbox,              \* per socket, the telemetry messages that reached it and await its handler
    broadcasts          \* how many telemetry messages the server has sent

vars == <<metric, rawValue, thresholdsStore, metricData, snapshot, variant, id, unit, min, max,
          normalRange, warningRange, criticalRange, validationErrors, bound, sliderInput,
          showConfirmDialog, updating, originalMetrics, request, response,
          weightMonitoring, originalWeightMonitoring, layout, toasts, freshToasts, nextToastId, called,
          mounted, providerToasts, dismissTimers, lastTelemetry, dispatched, received,
          telemetryStores, pages, listening, status, error, socket, sockets,
          reconnectAttempts, inbox, broadcasts>>

storeVars == <<metric, rawValue, thresholdsStore, metricData, snapshot>>

componentVars == <<variant, id, unit, min, max, normalRange, warningRange,
                   criticalRange, validationErrors, bound, sliderInput>>

pageVars == <<showConfirmDialog, updating, originalMetrics, request, response,
              weightMonitoring, originalWeightMonitoring>>

toastVars == <<toasts, freshToasts, nextToastId, called, mounted, providerToasts,
               dismissTimers>>

dashboardVars == <<telemetryStores, pages, listening>>

connectionVars == <<status, error, socket, sockets, reconnectAttempts, inbox, broadcasts>>

socketVars == <<lastTelemetry, dispatched, received, dashboardVars, connectionVars>>

NULL == [isNull |-> TRUE]

(***************************************************************************)
(* Bounds of the model.                                                    *)
(***************************************************************************)
\* number of equal steps the display range is cut into for threshold inputs
GridN == 2

\* number of equal steps the slider range is cut into for slider inputs
SliderN == 3

(***************************************************************************)
(* Arithmetic helpers.                                                     *)
(***************************************************************************)
MathMin(a, b) == IF a <= b THEN a ELSE b

MathMax(a, b) == IF a >= b THEN a ELSE b

\* Math.round of the rational n/d (d > 0): floor(n/d + 1/2)
MathRound(n, d) == (2 * n + d) \div (2 * d)

Rat(n) == [num |-> n, den |-> 1]

RatLt(a, b) == a.num * b.den < b.num * a.den

RatLe(a, b) == a.num * b.den <= b.num * a.den

RatEq(a, b) == a.num * b.den = b.num * a.den

(***************************************************************************)
(* metrics.config.ts                                                       *)
(***************************************************************************)
SEVERITY_COLORS == [normal |-> "#22c55e", warning |-> "#eab308", critical |-> "#ef4444"]

METRICS_CONFIG ==
    [ temp     |-> [id |-> "temp", unit |-> "C", type |-> "range",
                    displayMin |-> 15, displayMax |-> 45,
                    autoAdjust |-> [warningSpan |-> 0, warningExtension |-> 5],
                    allowManualThresholds |-> FALSE],
      humidity |-> [id |-> "humidity", unit |-> "%", type |-> "range",
                    displayMin |-> 0, displayMax |-> 100,
                    autoAdjust |-> [warningSpan |-> 0, warningExtension |-> 10],
                    allowManualThresholds |-> FALSE],
      activity |-> [id |-> "activity", unit |-> "dB", type |-> "range",
                    displayMin |-> 0, displayMax |-> 100,
                    autoAdjust |-> [warningSpan |-> 0, warningExtension |-> 10],
                    allowManualThresholds |-> FALSE],
      co2      |-> [id |-> "co2", unit |-> "ppm", type |-> "ascending",
                    displayMin |-> 400, displayMax |-> 4000,
                    autoAdjust |-> [warningSpan |-> 500],
                    allowManualThresholds |-> FALSE],
      swarm    |-> [id |-> "swarm", unit |-> "", type |-> "ascending",
                    displayMin |-> 0, displayMax |-> 100,
                    autoAdjust |-> [warningSpan |-> 10],
                    allowManualThresholds |-> FALSE],
      battery  |-> [id |-> "battery", unit |-> "%", type |-> "inverted",
                    displayMin |-> 0, displayMax |-> 100,
                    autoAdjust |-> [warningSpan |-> 40],
                    allowManualThresholds |-> FALSE],
      honey    |-> [id |-> "honey", unit |-> "g", type |-> "inverted",
                    displayMin |-> -500, displayMax |-> 1000,
                    autoAdjust |-> [warningSpan |-> 250],
                    allowManualThresholds |-> FALSE],
      weight   |-> [id |-> "weight", unit |-> "kg", type |-> "range",
                    displayMin |-> 20, displayMax |-> 60,
                    autoAdjust |-> [warningSpan |-> 0, warningExtension |-> 4],
                    allowManualThresholds |-> TRUE] ]

\* the scaleLabels of the metrics' configurations
scaleLabels ==
    [ temp |-> <<"15°", "TCM", "45°">>,
      humidity |-> <<"0%", "Hive", "100%">>,
      activity |-> <<"0 dB", "Activity", "100 dB">>,
      co2 |-> <<"400", "Vent", "4000">>,
      swarm |-> <<"0", "Score", "100">>,
      battery |-> <<"0%", "Charge", "100%">>,
      honey |-> <<"-500g", "Δ 24h", "+1000g">>,
      weight |-> <<"20 kg", "Total", "60 kg">> ]

MetricIds == DOMAIN METRICS_CONFIG

getMetricConfig(metricId) ==
    IF metricId \in MetricIds THEN METRICS_CONFIG[metricId] ELSE NULL

cfg == METRICS_CONFIG

(***************************************************************************)
(* telemetry.store.ts: helper functions                                    *)
(***************************************************************************)
\* calculatePercent without the clamp to the display range
calculatePercent_unclamped(value, lo, hi) ==
    [num |-> (value - lo) * 100, den |-> hi - lo]

calculatePercent(value, lo, hi) ==
    LET clamped == MathMax(lo, MathMin(hi, value))
    IN  [num |-> (clamped - lo) * 100, den |-> hi - lo]

valueToPercent(value, displayMin, displayMax) ==
    [num |-> (value - displayMin) * 100, den |-> displayMax - displayMin]

\* calculateSeverity with the ascending normal boundary made exclusive
calculateSeverity_exclusiveNormalMax(value, normalMin, normalMax, warningMin, warningMax, metricType) ==
    IF metricType = "ascending" THEN
        IF value < normalMax THEN "safe"
        ELSE IF value <= warningMax THEN "warning"
        ELSE "critical"
    ELSE IF metricType = "inverted" THEN
        IF value < warningMin THEN "critical"
        ELSE IF value < normalMin THEN "warning"
        ELSE "safe"
    ELSE
        IF value >= normalMin /\ value <= normalMax THEN "safe"
        ELSE IF value >= warningMin /\ value <= warningMax THEN "warning"
        ELSE "critical"

calculateSeverity(value, normalMin, normalMax, warningMin, warningMax, metricType) ==
    IF metricType = "ascending" THEN
        IF value <= normalMax THEN "safe"
        ELSE IF value <= warningMax THEN "warning"
        ELSE "critical"
    ELSE IF metricType = "inverted" THEN
        IF value < warningMin THEN "critical"
        ELSE IF value < normalMin THEN "warning"
        ELSE "safe"
    ELSE
        IF value >= normalMin /\ value <= normalMax THEN "safe"
        ELSE IF value >= warningMin /\ value <= warningMax THEN "warning"
        ELSE "critical"

generateAscendingSegments(displayMin, displayMax, normalMax, warningMax) ==
    LET normalEnd == valueToPercent(normalMax, displayMin, displayMax)
        warningEnd == valueToPercent(warningMax, displayMin, displayMax)
    IN  << [start |-> Rat(0), stop |-> normalEnd, color |-> SEVERITY_COLORS.normal, label |-> "Normal"],
           [start |-> normalEnd, stop |-> warningEnd, color |-> SEVERITY_COLORS.warning, label |-> "Warning"],
           [start |-> warningEnd, stop |-> Rat(100), color |-> SEVERITY_COLORS.critical, label |-> "Critical"] >>

generateInvertedSegments(displayMin, displayMax, warningMin, normalMin) ==
    LET criticalEnd == valueToPercent(warningMin, displayMin, displayMax)
        warningEnd == valueToPercent(normalMin, displayMin, displayMax)
    IN  << [start |-> Rat(0), stop |-> criticalEnd, color |-> SEVERITY_COLORS.critical, label |-> "Critical"],
           [start |-> criticalEnd, stop |-> warningEnd, color |-> SEVERITY_COLORS.warning, label |-> "Warning"],
           [start |-> warningEnd, stop |-> Rat(100), color |-> SEVERITY_COLORS.normal, label |-> "Normal"] >>

generateRangeSegments(displayMin, displayMax, criticalMin, normalMin, normalMax, criticalMax) ==
    LET criticalLowEnd == valueToPercent(criticalMin, displayMin, displayMax)
        warningLowEnd == valueToPercent(normalMin, displayMin, displayMax)
        normalEnd == valueToPercent(normalMax, displayMin, displayMax)
        warningHighEnd == valueToPercent(criticalMax, displayMin, displayMax)
    IN  << [start |-> Rat(0), stop |-> criticalLowEnd, color |-> SEVERITY_COLORS.critical, label |-> "Critical"],
           [start |-> criticalLowEnd, stop |-> warningLowEnd, color |-> SEVERITY_COLORS.warning, label |-> "Warning"],
           [start |-> warningLowEnd, stop |-> normalEnd, color |-> SEVERITY_COLORS.normal, label |-> "Normal"],
           [start |-> normalEnd, stop |-> warningHighEnd, color |-> SEVERITY_COLORS.warning, label |-> "Warning"],
           [start |-> warningHighEnd, stop |-> Rat(100), color |-> SEVERITY_COLORS.critical, label |-> "Critical"] >>

(***************************************************************************)
(* telemetry.store.ts: derived metric stores.  Each derived store reads    *)
(* its own raw value and the fields of its metric in thresholdsStore.      *)
(***************************************************************************)
rangeDerived(m, value, th) ==
    [ id |-> m, rawValue |-> value,
      percent |-> calculatePercent(value, cfg[m].displayMin, cfg[m].displayMax),
      scale |-> scaleLabels[m],
      severity |-> calculateSeverity(value, th.normalMin, th.normalMax,
                                     th.warningMin, th.warningMax, "range"),
      segments |-> generateRangeSegments(cfg[m].displayMin, cfg[m].displayMax,
                                         th.criticalMin, th.normalMin,
                                         th.normalMax, th.criticalMax) ]

ascendingDerived(m, value, th) ==
    [ id |-> m, rawValue |-> value,
      percent |-> calculatePercent(value, cfg[m].displayMin, cfg[m].displayMax),
      scale |-> scaleLabels[m],
      severity |-> calculateSeverity(value, th.normalMin, th.normalMax,
                                     th.warningMin, th.warningMax, "ascending"),
      segments |-> generateAscendingSegments(cfg[m].displayMin, cfg[m].displayMax,
                                             th.normalMax, th.warningMax) ]

\* invertedDerived classifying with the ascending rule
invertedDerived_ascendingRule(m, value, th) ==
    [ id |-> m, rawValue |-> value,
      percent |-> calculatePercent(value, cfg[m].displayMin, cfg[m].displayMax),
      scale |-> scaleLabels[m],
      severity |-> calculateSeverity(value, th.normalMin, th.normalMax,
                                     th.warningMin, th.warningMax, "ascending"),
      segments |-> generateInvertedSegments(cfg[m].displayMin, cfg[m].displayMax,
                                            th.warningMin, th.normalMin) ]

invertedDerived(m, value, th) ==
    [ id |-> m, rawValue |-> value,
      percent |-> calculatePercent(value, cfg[m].displayMin, cfg[m].displayMax),
      scale |-> scaleLabels[m],
      severity |-> calculateSeverity(value, th.normalMin, th.normalMax,
                                     th.warningMin, th.warningMax, "inverted"),
      segments |-> generateInvertedSegments(cfg[m].displayMin, cfg[m].displayMax,
                                            th.warningMin, th.normalMin) ]

temperatureMetric(value, th) == IF th = NULL THEN NULL ELSE rangeDerived("temp", value, th)

humidityMetric(value, th) == IF th = NULL THEN NULL ELSE rangeDerived("humidity", value, th)

\* the local hour of the instants the model's dates stand for
LocalHours == [T0 |-> 9, T1 |-> 21, T2 |-> 13, T3 |-> 2, T4 |-> 16]

\* $recordedAt.getHours() >= 6 && $recordedAt.getHours() < 20; getHours() of
\* the Invalid Date is NaN, which fails both comparisons
isDay(date) ==
    /\ date.value \in DOMAIN LocalHours
    /\ LocalHours[date.value] >= 6
    /\ LocalHours[date.value] < 20

\* the activity store classifying against the warning band at night
activityMetric_quietNights(value, th, recordedAt) ==
    IF th = NULL THEN NULL
    ELSE [rangeDerived("activity", value, th) EXCEPT
              !.severity = IF isDay(recordedAt) THEN @
                           ELSE calculateSeverity(value, th.warningMin, th.warningMax,
                                                  th.warningMin, th.warningMax, "range"),
              !.scale = <<scaleLabels.activity[1],
                          IF isDay(recordedAt) THEN "Day" ELSE "Night",
                          scaleLabels.activity[3]>>]

\* the activity store: also derived from recordedAt, whose hour picks the
\* middle scale label
activityMetric(value, th, recordedAt) ==
    IF th = NULL THEN NULL
    ELSE [rangeDerived("activity", value, th) EXCEPT
              !.scale = <<scaleLabels.activity[1],
                          IF isDay(recordedAt) THEN "Day" ELSE "Night",
                          scaleLabels.activity[3]>>]

co2Metric(value, th) == IF th = NULL THEN NULL ELSE ascendingDerived("co2", value, th)

swarmMetric(value, th) == IF th = NULL THEN NULL ELSE ascendingDerived("swarm", value, th)

batteryMetric(value, th) == IF th = NULL THEN NULL ELSE invertedDerived("battery", value, th)

honeyMetric(value, th) == IF th = NULL THEN NULL ELSE invertedDerived("honey", value, th)

\* the weight store classified like the other range metrics, by its gauge
weightMetric_classified(value, th) ==
    IF th = NULL THEN NULL
    ELSE [ id |-> "weight", rawValue |-> value,
           percent |-> calculatePercent(value, cfg.weight.displayMin, cfg.weight.displayMax),
           scale |-> scaleLabels.weight,
           severity |-> calculateSeverity(value, 28, 52, 24, 56, "range"),
           segments |-> generateRangeSegments(cfg.weight.displayMin, cfg.weight.displayMax,
                                              24, 28, 52, 56) ]

\* the weight store: fixed split points, severity always 'safe'
weightMetric(value, th) ==
    IF th = NULL THEN NULL
    ELSE [ id |-> "weight", rawValue |-> value,
           percent |-> calculatePercent(value, cfg.weight.displayMin, cfg.weight.displayMax),
           scale |-> scaleLabels.weight,
           severity |-> "safe",
           segments |-> generateRangeSegments(cfg.weight.displayMin, cfg.weight.displayMax,
                                              24, 28, 52, 56) ]

\* the derived store of metric m
derivedMetric(m, value, th, recordedAt) ==
    CASE m = "temp" -> temperatureMetric(value, th)
      [] m = "humidity" -> humidityMetric(value, th)
      [] m = "activity" -> activityMetric(value, th, recordedAt)
      [] m = "co2" -> co2Metric(value, th)
      [] m = "swarm" -> swarmMetric(value, th)
      [] m = "battery" -> batteryMetric(value, th)
      [] m = "honey" -> honeyMetric(value, th)
      [] m = "weight" -> weightMetric(value, th)

\* the metrics whose derived store classifies with calculateSeverity
StoreMetricIds == {"temp", "humidity", "activity", "co2", "swarm", "battery", "honey"}

(***************************************************************************)
(* telemetry-transform.ts: the envelope-based classifier                   *)
(* (metricType 'normal' is its name of the range topology).                *)
(***************************************************************************)
\* calculateSeverityTransform with the inverted branch comparing to warningMax
calculateSeverityTransform_wrongBound(value, normalMin, normalMax, warningMin, warningMax, criticalMin, criticalMax, metricType) ==
    IF metricType = "ascending" THEN
        IF value <= normalMax THEN "safe"
        ELSE IF value <= warningMax THEN "warning"
        ELSE "critical"
    ELSE IF metricType = "inverted" THEN
        IF value < warningMax THEN "critical"
        ELSE IF value < normalMin THEN "warning"
        ELSE "safe"
    ELSE
        IF value < criticalMin \/ value > criticalMax THEN "critical"
        ELSE IF value >= normalMin /\ value <= normalMax THEN "safe"
        ELSE "warning"

calculateSeverityTransform(value, normalMin, normalMax, warningMin, warningMax, criticalMin, criticalMax, metricType) ==
    IF metricType = "ascending" THEN
        IF value <= normalMax THEN "safe"
        ELSE IF value <= warningMax THEN "warning"
        ELSE "critical"
    ELSE IF metricType = "inverted" THEN
        IF value < warningMin THEN "critical"
        ELSE IF value < normalMin THEN "warning"
        ELSE "safe"
    ELSE
        IF value < criticalMin \/ value > criticalMax THEN "critical"
        ELSE IF value >= normalMin /\ value <= normalMax THEN "safe"
        ELSE "warning"

(***************************************************************************)
(* The centralized-configuration version of the transformation utilities   *)
(* (a duplicate of the store's classifier).                                *)
(***************************************************************************)
calculateSeverityCentral(value, normalMin, normalMax, warningMin, warningMax, metricType) ==
    IF metricType = "ascending" THEN
        IF value <= normalMax THEN "safe"
        ELSE IF value <= warningMax THEN "warning"
        ELSE "critical"
    ELSE IF metricType = "inverted" THEN
        IF value < warningMin THEN "critical"
        ELSE IF value < normalMin THEN "warning"
        ELSE "safe"
    ELSE
        IF value >= normalMin /\ value <= normalMax THEN "safe"
        ELSE IF value >= warningMin /\ value <= warningMax THEN "warning"
        ELSE "critical"

(***************************************************************************)
(* gauge-card.svelte: the segment the pointer falls into                   *)
(***************************************************************************)
RECURSIVE insertByStart(_, _)
\* stable insertion: after every element whose start is not greater
insertByStart(sorted, segment) ==
    IF sorted = <<>> THEN <<segment>>
    ELSE IF RatLt(segment.start, Head(sorted).start) THEN <<segment>> \o sorted
    ELSE <<Head(sorted)>> \o insertByStart(Tail(sorted), segment)

RECURSIVE sortedSegments(_)
\* [...segments].sort((a, b) => a.start - b.start), a stable sort
sortedSegments(segments) ==
    IF segments = <<>> THEN <<>>
    ELSE insertByStart(sortedSegments(SubSeq(segments, 1, Len(segments) - 1)),
                       segments[Len(segments)])

currentSegment(percent, segments) ==
    LET sorted == sortedSegments(segments)
        n == Len(sorted)
        matches(i) ==
            IF i = n
            THEN RatLe(sorted[i].start, percent) /\ RatLe(percent, sorted[i].stop)
            ELSE RatLe(sorted[i].start, percent) /\ RatLt(percent, sorted[i].stop)
        hits == { i \in 1..n : matches(i) }
    IN  IF hits # {}
        THEN sorted[CHOOSE i \in hits : \A j \in hits : i <= j]
        ELSE sorted[n]

\* JavaScript strings are strings here too: Len, SubSeq, Head, Tail and \o
\* work on their characters.
\* the lower-case form of the letters A..Z; every other character of the
\* texts followed here is its own lower-case form
LowerCaseLetters ==
    [ A |-> "a", B |-> "b", C |-> "c", D |-> "d", E |-> "e", F |-> "f", G |-> "g",
      H |-> "h", I |-> "i", J |-> "j", K |-> "k", L |-> "l", M |-> "m", N |-> "n",
      O |-> "o", P |-> "p", Q |-> "q", R |-> "r", S |-> "s", T |-> "t", U |-> "u",
      V |-> "v", W |-> "w", X |-> "x", Y |-> "y", Z |-> "z" ]

\* String.prototype.toLowerCase, character by character
RECURSIVE toLowerCase(_)
toLowerCase(text) ==
    IF text = "" THEN ""
    ELSE LET first == Head(text)
         IN  (IF first \in DOMAIN LowerCaseLetters THEN LowerCaseLetters[first] ELSE first)
                 \o toLowerCase(Tail(text))

\* the positions at which needle occurs in text
occurrences(text, needle) ==
    { i \in 1..(Len(text) - Len(needle) + 1) :
          SubSeq(text, i, i + Len(needle) - 1) = needle }

\* String.prototype.includes: needle occurs somewhere in text
includes(text, needle) == occurrences(text, needle) # {}

\* String.prototype.replace with a string pattern: the first occurrence
\* of the pattern is replaced
replace(text, pattern, replacement) ==
    LET hits == occurrences(text, pattern)
    IN  IF hits = {} THEN text
        ELSE LET first == CHOOSE i \in hits : \A k \in hits : i <= k
             IN  SubSeq(text, 1, first - 1) \o replacement
                     \o SubSeq(text, first + Len(pattern), Len(text))

\* String.prototype.replace with a global pattern of one character
\* (/_/g): every occurrence of the character is replaced
RECURSIVE replaceAll(_, _, _)
replaceAll(text, character, replacement) ==
    IF text = "" THEN ""
    ELSE (IF Head(text) = character THEN replacement ELSE Head(text))
             \o replaceAll(Tail(text), character, replacement)

currentStatus(segment) ==
    IF segment = NULL \/ "color" \notin DOMAIN segment THEN "safe"
    ELSE IF segment.color = ""
    THEN LET label == IF "label" \in DOMAIN segment THEN toLowerCase(segment.label) ELSE ""
         IN  IF includes(label, "warning") THEN "warning"
             ELSE IF includes(label, "critical") THEN "critical"
             ELSE "safe"
    ELSE IF segment.color = "#22c55e" THEN "safe"
    ELSE IF segment.color = "#eab308" THEN "warning"
    ELSE IF segment.color = "#ef4444" THEN "critical"
    ELSE LET colorLower == toLowerCase(segment.color)
         IN  IF includes(colorLower, "green") THEN "safe"
             ELSE IF includes(colorLower, "yellow") THEN "warning"
             ELSE IF includes(colorLower, "red") THEN "critical"
             ELSE "safe"

(***************************************************************************)
(* metrics.config.ts: validation                                           *)
(***************************************************************************)
minSpanOf(config) ==
    IF config # NULL /\ (config.unit = "%" \/ config.unit = "") THEN 5 ELSE 1

typeOf(config) == IF config # NULL THEN config.type ELSE "none"

errorIf(cond, field, message) ==
    IF cond THEN << [field |-> field, message |-> message] >> ELSE <<>>

validateThresholds(metricId, normalMin, normalMax, warningMin, warningMax, criticalMin, criticalMax, displayMin, displayMax) ==
    LET config == getMetricConfig(metricId)
        errors ==
            errorIf(normalMin > normalMax, "normal",
                    "Normal minimum cannot be greater than maximum")
            \o errorIf(warningMin > warningMax, "warning",
                       "Warning minimum cannot be greater than maximum")
            \o errorIf(criticalMin > criticalMax, "critical",
                       "Critical minimum cannot be greater than maximum")
            \o errorIf(normalMin < displayMin \/ normalMax > displayMax, "normal",
                       "Normal range must be within display range")
            \o (IF typeOf(config) = "ascending" THEN
                    errorIf(warningMin < normalMax, "warning",
                            "Warning zone must start at or after normal maximum")
                    \o errorIf(criticalMin < warningMax, "critical",
                               "Critical zone must start at or after warning maximum")
                ELSE IF typeOf(config) = "inverted" THEN
                    errorIf(warningMax > normalMin, "warning",
                            "Warning zone must end at or before normal minimum")
                    \o errorIf(criticalMax > warningMin, "critical",
                               "Critical zone must end at or before warning minimum")
                ELSE IF typeOf(config) = "range" THEN
                    errorIf(warningMin > normalMin \/ warningMax < normalMax, "warning",
                            "Warning zone must encompass the entire normal range")
                    \o errorIf(criticalMin > warningMin \/ criticalMax < warningMax, "critical",
                               "Critical boundaries must be at or beyond warning zone")
                ELSE <<>>)
            \o errorIf(normalMax - normalMin < minSpanOf(config), "normal",
                       "Normal range must be at least minSpan wide")
    IN  [valid |-> Len(errors) = 0, errors |-> errors]

validateNormalRange(metricId, normalMin, normalMax, displayMin, displayMax) ==
    LET config == getMetricConfig(metricId)
        errors ==
            errorIf(normalMin > normalMax, "normal",
                    "Minimum cannot be greater than maximum")
            \o errorIf(normalMin < displayMin, "normal",
                       "Minimum cannot be less than displayMin")
            \o errorIf(normalMax > displayMax, "normal",
                       "Maximum cannot be greater than displayMax")
            \o errorIf(normalMax - normalMin < minSpanOf(config), "normal",
                       "Range must be at least minSpan wide")
    IN  [valid |-> Len(errors) = 0, errors |-> errors]

(***************************************************************************)
(* metrics.config.ts: auto-adjustment of the warning and critical bounds.  *)
(* A thrown Error is the record [error |-> message].                       *)
(***************************************************************************)
\* autoAdjustAscendingThresholds without the clamp to displayMax
autoAdjustAscendingThresholds_noClamp(metricId, normalMax, displayMax) ==
    LET config == getMetricConfig(metricId)
    IN  IF typeOf(config) # "ascending"
        THEN [error |-> "Invalid metric ID or type for ascending adjustment"]
        ELSE LET warningSpan == config.autoAdjust.warningSpan
                 warningMin == normalMax
                 warningMax == normalMax + warningSpan
                 criticalMin == warningMax
                 criticalMax == displayMax
             IN  [warningMin |-> warningMin, warningMax |-> warningMax,
                  criticalMin |-> criticalMin, criticalMax |-> criticalMax]

autoAdjustAscendingThresholds(metricId, normalMax, displayMax) ==
    LET config == getMetricConfig(metricId)
    IN  IF typeOf(config) # "ascending"
        THEN [error |-> "Invalid metric ID or type for ascending adjustment"]
        ELSE LET warningSpan == config.autoAdjust.warningSpan
                 warningMin == normalMax
                 warningMax == MathMin(displayMax, normalMax + warningSpan)
                 criticalMin == warningMax
                 criticalMax == displayMax
             IN  [warningMin |-> warningMin, warningMax |-> warningMax,
                  criticalMin |-> criticalMin, criticalMax |-> criticalMax]

\* autoAdjustInvertedThresholds with the critical zone ending at normalMin
autoAdjustInvertedThresholds_criticalAtNormal(metricId, normalMin, displayMin) ==
    LET config == getMetricConfig(metricId)
    IN  IF typeOf(config) # "inverted"
        THEN [error |-> "Invalid metric ID or type for inverted adjustment"]
        ELSE LET warningSpan == config.autoAdjust.warningSpan
                 warningMax == normalMin
                 warningMin == MathMax(displayMin, normalMin - warningSpan)
                 criticalMax == warningMax
                 criticalMin == displayMin
             IN  [warningMin |-> warningMin, warningMax |-> warningMax,
                  criticalMin |-> criticalMin, criticalMax |-> criticalMax]

autoAdjustInvertedThresholds(metricId, normalMin, displayMin) ==
    LET config == getMetricConfig(metricId)
    IN  IF typeOf(config) # "inverted"
        THEN [error |-> "Invalid metric ID or type for inverted adjustment"]
        ELSE LET warningSpan == config.autoAdjust.warningSpan
                 warningMax == normalMin
                 warningMin == MathMax(displayMin, normalMin - warningSpan)
                 criticalMax == warningMin
                 criticalMin == displayMin
             IN  [warningMin |-> warningMin, warningMax |-> warningMax,
                  criticalMin |-> criticalMin, criticalMax |-> criticalMax]

\* autoAdjustRangeThresholds with the critical envelope at the display bounds
autoAdjustRangeThresholds_criticalAtDisplay(metricId, normalMin, normalMax, displayMin, displayMax) ==
    LET config == getMetricConfig(metricId)
    IN  IF typeOf(config) # "range"
        THEN [error |-> "Invalid metric ID or type for range adjustment"]
        ELSE LET extension ==
                     IF "warningExtension" \in DOMAIN config.autoAdjust
                            /\ config.autoAdjust.warningExtension # 0
                     THEN config.autoAdjust.warningExtension
                     ELSE 10
             IN  [warningMin |-> MathMax(displayMin, normalMin - extension),
                  warningMax |-> MathMin(displayMax, normalMax + extension),
                  criticalMin |-> displayMin, criticalMax |-> displayMax]

autoAdjustRangeThresholds(metricId, normalMin, normalMax, displayMin, displayMax) ==
    LET config == getMetricConfig(metricId)
    IN  IF typeOf(config) # "range"
        THEN [error |-> "Invalid metric ID or type for range adjustment"]
        ELSE LET extension ==
                     IF "warningExtension" \in DOMAIN config.autoAdjust
                            /\ config.autoAdjust.warningExtension # 0
                     THEN config.autoAdjust.warningExtension
                     ELSE 10
                 warningMin == MathMax(displayMin, normalMin - extension)
                 warningMax == MathMin(displayMax, normalMax + extension)
                 criticalMin == warningMin
                 criticalMax == warningMax
             IN  [warningMin |-> warningMin, warningMax |-> warningMax,
                  criticalMin |-> criticalMin, criticalMax |-> criticalMax]

(***************************************************************************)
(* metric-threshold.svelte, the version with component-local adjustment.   *)
(* Each function yields the new warningRange and criticalRange, or leaves  *)
(* the given ones when the metric is not of its kind.                      *)
(***************************************************************************)
isNormalMetric(metricId) == metricId \in {"temp", "humidity", "activity"}

isAscendingMetric(metricId) == metricId \in {"co2", "swarm"}

isInvertedMetric(metricId) == metricId \in {"battery", "honey"}

\* step = 1 / localStepDen: 1 for '%' and '', 0.1 otherwise
localStepDen(u) == IF u = "%" \/ u = "" THEN 1 ELSE 10

\* Math.round(x / step) * step
roundToStep(x, stepDen) == MathRound(x * stepDen, 1) \div stepDen

autoAdjustNormalMetricThresholds(metricId, u, lo, hi, normalMin, normalMax, ranges) ==
    IF ~isNormalMetric(metricId) THEN ranges
    ELSE LET stepDen == localStepDen(u)
             extension == 10
             newWarningMin == MathMax(lo, roundToStep(normalMin - extension, stepDen))
             newWarningMax == MathMin(hi, roundToStep(normalMax + extension, stepDen))
             newCriticalMin == newWarningMin
             newCriticalMax == newWarningMax
         IN  [warningRange |-> <<newWarningMin, newWarningMax>>,
              criticalRange |-> <<newCriticalMin, newCriticalMax>>]

\* autoAdjustAscendingMetricThresholds with the spans of co2 and swarm swapped
autoAdjustAscendingMetricThresholds_swappedSpans(metricId, u, lo, hi, normalMin, normalMax, ranges) ==
    IF ~isAscendingMetric(metricId) THEN ranges
    ELSE LET stepDen == localStepDen(u)
             normalSpan == normalMax - normalMin
             warningSpan == IF metricId = "co2" THEN 10
                            ELSE IF metricId = "swarm" THEN 500
                            ELSE MathMax(normalSpan \div 2, 100)
             newWarningMin == normalMax
             newWarningMax == MathMin(hi, roundToStep(newWarningMin + warningSpan, stepDen))
             newCriticalMin == newWarningMax
             newCriticalMax == hi
         IN  [warningRange |-> <<newWarningMin, newWarningMax>>,
              criticalRange |-> <<newCriticalMin, newCriticalMax>>]

autoAdjustAscendingMetricThresholds(metricId, u, lo, hi, normalMin, normalMax, ranges) ==
    IF ~isAscendingMetric(metricId) THEN ranges
    ELSE LET stepDen == localStepDen(u)
             normalSpan == normalMax - normalMin
             warningSpan == IF metricId = "co2" THEN 500
                            ELSE IF metricId = "swarm" THEN 10
                            ELSE MathMax(normalSpan \div 2, 100)
             newWarningMin == normalMax
             newWarningMax == MathMin(hi, roundToStep(newWarningMin + warningSpan, stepDen))
             newCriticalMin == newWarningMax
             newCriticalMax == hi
         IN  [warningRange |-> <<newWarningMin, newWarningMax>>,
              criticalRange |-> <<newCriticalMin, newCriticalMax>>]

autoAdjustInvertedMetricThresholds(metricId, u, lo, hi, normalMin, normalMax, ranges) ==
    IF ~isInvertedMetric(metricId) THEN ranges
    ELSE LET stepDen == localStepDen(u)
             normalSpan == normalMax - normalMin
             warningSpan == IF metricId = "battery" THEN 40
                            ELSE IF metricId = "honey" THEN 250
                            ELSE MathMax(normalSpan \div 2, 100)
             newWarningMax == normalMin
             newWarningMin == MathMax(lo, roundToStep(newWarningMax - warningSpan, stepDen))
             newCriticalMax == newWarningMin
             newCriticalMin == lo
         IN  [warningRange |-> <<newWarningMin, newWarningMax>>,
              criticalRange |-> <<newCriticalMin, newCriticalMax>>]

\* the $effect that adjusts warning and critical when the normal range changes
localAutoAdjust(metricId, u, lo, hi, normalMin, normalMax, ranges) ==
    IF isNormalMetric(metricId)
    THEN autoAdjustNormalMetricThresholds(metricId, u, lo, hi, normalMin, normalMax, ranges)
    ELSE IF isAscendingMetric(metricId)
    THEN autoAdjustAscendingMetricThresholds(metricId, u, lo, hi, normalMin, normalMax, ranges)
    ELSE IF isInvertedMetric(metricId)
    THEN autoAdjustInvertedMetricThresholds(metricId, u, lo, hi, normalMin, normalMax, ranges)
    ELSE ranges

(***************************************************************************)
(* metric-threshold.svelte, the version using the centralized functions.   *)
(***************************************************************************)
\* the slider step as a rational
stepSize(u, lo, hi) ==
    LET range == hi - lo
    IN  IF u = "%" \/ u = "" THEN [num |-> 1, den |-> 1]
        ELSE IF range >= 1000 THEN [num |-> 10, den |-> 1]
        ELSE IF range >= 500 THEN [num |-> 5, den |-> 1]
        ELSE IF range >= 100 THEN [num |-> 1, den |-> 1]
        ELSE [num |-> 1, den |-> 2]

isAutoAdjusted(metricId) ==
    getMetricConfig(metricId) # NULL
        /\ getMetricConfig(metricId).allowManualThresholds = FALSE

Abs(x) == IF x < 0 THEN -x ELSE x

\* Math.abs(a - b) > stepSize
farApart(a, b, step) == Abs(a - b) * step.den > step.num

\* handleNormalRangeChange writing a rejected normal range, clamped to the
\* display range, to the parent's props
handleNormalRangeChange_writesRejected(metricId, lo, hi, nRange, wRange, cRange, props) ==
    LET result == validateNormalRange(metricId, nRange[1], nRange[2], lo, hi)
    IN  [validationErrors |-> result.errors, warningRange |-> wRange,
         criticalRange |-> cRange,
         bound |-> [props EXCEPT !.normalMin = MathMax(lo, nRange[1]),
                                 !.normalMax = MathMin(hi, nRange[2])]]

\* the result of handleNormalRangeChange on the given component state:
\* validationErrors, warningRange, criticalRange and the bound props
handleNormalRangeChange(metricId, lo, hi, nRange, wRange, cRange, props) ==
    LET result == validateNormalRange(metricId, nRange[1], nRange[2], lo, hi)
        metricConfig == getMetricConfig(metricId)
    IN  IF ~result.valid \/ metricConfig = NULL \/ metricConfig.allowManualThresholds
        THEN [validationErrors |-> result.errors, warningRange |-> wRange,
              criticalRange |-> cRange, bound |-> props]
        ELSE LET adjusted ==
                     IF metricConfig.type = "ascending"
                     THEN autoAdjustAscendingThresholds(metricId, nRange[2], hi)
                     ELSE IF metricConfig.type = "inverted"
                     THEN autoAdjustInvertedThresholds(metricId, nRange[1], lo)
                     ELSE autoAdjustRangeThresholds(metricId, nRange[1], nRange[2], lo, hi)
                 threw == "error" \in DOMAIN adjusted
                 newWarning == IF threw THEN wRange
                               ELSE <<adjusted.warningMin, adjusted.warningMax>>
                 newCritical == IF threw THEN cRange
                                ELSE <<adjusted.criticalMin, adjusted.criticalMax>>
             IN  [validationErrors |-> result.errors,
                  warningRange |-> newWarning,
                  criticalRange |-> newCritical,
                  bound |-> [normalMin |-> nRange[1], normalMax |-> nRange[2],
                             warningMin |-> newWarning[1], warningMax |-> newWarning[2],
                             criticalMin |-> newCritical[1], criticalMax |-> newCritical[2]]]

\* the $effect that re-synchronises the local ranges from the parent's props
syncFromProps(metricId, u, lo, hi, nRange, wRange, cRange, props) ==
    LET step == stepSize(u, lo, hi)
        normalChanged == farApart(props.normalMin, nRange[1], step)
                            \/ farApart(props.normalMax, nRange[2], step)
        warningChanged == farApart(props.warningMin, wRange[1], step)
                            \/ farApart(props.warningMax, wRange[2], step)
        criticalChanged == farApart(props.criticalMin, cRange[1], step)
                            \/ farApart(props.criticalMax, cRange[2], step)
    IN  [normalRange |-> IF normalChanged THEN <<props.normalMin, props.normalMax>> ELSE nRange,
         warningRange |-> IF ~isAutoAdjusted(metricId) /\ warningChanged
                          THEN <<props.warningMin, props.warningMax>> ELSE wRange,
         criticalRange |-> IF ~isAutoAdjusted(metricId) /\ criticalChanged
                           THEN <<props.criticalMin, props.criticalMax>> ELSE cRange]

(***************************************************************************)
(* thresholds-transform.ts: the props the configuration page passes to the *)
(* component of each metric (weight gets its own component).               *)
(***************************************************************************)
transformThresholdsToMetrics ==
    [ temp     |-> [unit |-> "C", min |-> 18, max |-> 45],
      humidity |-> [unit |-> "%", min |-> 0, max |-> 100],
      activity |-> [unit |-> "dB", min |-> 0, max |-> 100],
      co2      |-> [unit |-> "ppm", min |-> 0, max |-> 5000],
      honey    |-> [unit |-> "g", min |-> -1000, max |-> 1000],
      swarm    |-> [unit |-> "", min |-> 0, max |-> 100],
      battery  |-> [unit |-> "%", min |-> 0, max |-> 100] ]

ComponentIds == DOMAIN transformThresholdsToMetrics

(***************************************************************************)
(* Inputs of the store: the thresholds the REST service delivers and the   *)
(* telemetry values, drawn from a grid over the metric's display range     *)
(* with one point outside on either side.                                  *)
(***************************************************************************)
GridStep(m) == (cfg[m].displayMax - cfg[m].displayMin) \div GridN

ThresholdGrid(m) ==
    { cfg[m].displayMin + k * GridStep(m) : k \in (-1)..(GridN - 1) }
        \cup { cfg[m].displayMax, cfg[m].displayMax + GridStep(m) }

ThresholdSets(m) ==
    [ normalMin : ThresholdGrid(m), normalMax : ThresholdGrid(m),
      warningMin : ThresholdGrid(m), warningMax : ThresholdGrid(m),
      criticalMin : ThresholdGrid(m), criticalMax : ThresholdGrid(m) ]

TelemetryValues(m) == ThresholdGrid(m) \cup {0}

(***************************************************************************)
(* telemetry.store.ts: the stores of the observed metric.  The initial     *)
(* states are the store contents left by setThresholds and updateTelemetry *)
(* (or no thresholds yet) before the derived store has been evaluated.     *)
(***************************************************************************)
StoreIdle ==
    /\ metric = "none" /\ rawValue = 0 /\ thresholdsStore = NULL /\ metricData = NULL
    /\ snapshot = NULL

ComponentIdle ==
    /\ variant = "none" /\ id = "none" /\ unit = "none" /\ min = 0 /\ max = 0
    /\ normalRange = <<0, 0>> /\ warningRange = <<0, 0>> /\ criticalRange = <<0, 0>>
    /\ validationErrors = <<>>
    /\ bound = NULL
    /\ sliderInput = NULL

PageIdle ==
    /\ showConfirmDialog = FALSE /\ updating = FALSE /\ originalMetrics = NULL
    /\ request = NULL /\ response = NULL
    /\ weightMonitoring = 300 /\ originalWeightMonitoring = 300

LayoutIdle == layout = NULL

ToastIdle ==
    /\ toasts = <<>> /\ freshToasts = <<>> /\ nextToastId = 1 /\ called = NULL
    /\ mounted = FALSE /\ providerToasts = <<>> /\ dismissTimers = {}

\* how many instances of the dashboard page are mounted in one behaviour
MaxPages == 2

\* the raw value stores as they are created: writable(0), and writable(new
\* Date()) for recordedAt
createdStores ==
    [temperature |-> 0, dailyHoneyGainG |-> 0,
     recordedAt |-> [type |-> "Date", value |-> "T0"]]

\* no instance of the page exists and no listener is registered
PagesIdle ==
    /\ pages = [page \in 1..MaxPages |-> "none"]
    /\ listening = {}

\* the stores as they are created and no page
DashboardIdle ==
    /\ telemetryStores = createdStores
    /\ PagesIdle

\* how many sockets io() hands out in one behaviour
MaxSockets == 2

\* how many telemetry messages the server sends while the connection is followed
MaxBroadcasts == 2

\* the websocket store and the service as they are constructed
ConnectionIdle ==
    /\ status = "disconnected" /\ error = NULL
    /\ socket = 0 /\ reconnectAttempts = 0
    /\ sockets = [s \in 1..MaxSockets |-> "none"]
    /\ inbox = [s \in 1..MaxSockets |-> <<>>]
    /\ broadcasts = 0

SocketIdle ==
    /\ lastTelemetry = NULL /\ dispatched = NULL /\ received = <<>>
    /\ DashboardIdle /\ ConnectionIdle

\* the field of updateTelemetry's argument that sets the raw value store
\* the derived store of metric m reads
valueField(m) ==
    CASE m = "temp" -> "temperature"
      [] m = "humidity" -> "humidity"
      [] m = "weight" -> "weightKg"
      [] m = "activity" -> "soundDb"
      [] m = "co2" -> "co2Ppm"
      [] m = "honey" -> "dailyHoneyGainG"
      [] m = "swarm" -> "swarmRisk"
      [] m = "battery" -> "batteryPercent"
      [] OTHER -> "none"

\* the raw value stores followed in telemetryStores
StoreFields == {"temperature", "dailyHoneyGainG", "recordedAt"}

\* the raw value stores after updateTelemetry(values): a store is set when
\* its field is not undefined
updatedStores(stores, values) ==
    [field \in StoreFields |->
        IF field \in DOMAIN values THEN values[field] ELSE stores[field]]

\* the observed metric's raw value store holds rawValue; the temperature
\* and the honey gain store are followed in telemetryStores as well
StoreInit ==
    /\ metric \in StoreMetricIds
    /\ rawValue \in TelemetryValues(metric)
    /\ thresholdsStore \in ThresholdSets(metric) \cup {NULL}
    /\ metricData = NULL
    /\ snapshot = NULL
    /\ telemetryStores =
           updatedStores(createdStores, [field \in {valueField(metric)} |-> rawValue])

Init ==
    /\ StoreInit /\ ComponentIdle /\ PageIdle /\ LayoutIdle /\ ToastIdle
    /\ lastTelemetry = NULL /\ dispatched = NULL /\ received = <<>>
    /\ PagesIdle /\ ConnectionIdle

\* the callback of the derived store of the observed metric
DeriveMetric ==
    /\ metricData' = derivedMetric(metric, rawValue, thresholdsStore,
                                   telemetryStores.recordedAt)
    /\ UNCHANGED <<metric, rawValue, thresholdsStore, snapshot>>
    /\ UNCHANGED <<componentVars, pageVars, layout, toastVars, socketVars>>

Next == DeriveMetric

Spec == Init /\ [][Next]_vars

(***************************************************************************)
(* telemetry.store.ts: the observed metric's stores under a sequence of    *)
(* updateTelemetry and setThresholds calls, the gauge being subscribed to  *)
(* the derived store.  telemetryStores follows the temperature, the       *)
(* dailyHoneyGainG and the recordedAt store.                               *)
(***************************************************************************)
\* a timestamp is a record [type, value]: an ISO string or a Date
isoString(text) == [type |-> "string", value |-> text]

dateOf(text) == [type |-> "Date", value |-> text]

\* the threshold documents the REST service delivers in this run:
\* documents whose six bounds are ordered in different ways (nested,
\* auto-adjusted, in the ascending and the inverted layout, reversed,
\* collapsed, warning inside normal, normal widest), on grid points inside,
\* at the ends of and outside the display range
DeliveredThresholds(m) ==
    LET lo == cfg[m].displayMin
        hi == cfg[m].displayMax
        below == lo - GridStep(m)
        above == hi + GridStep(m)
        mid == lo + GridStep(m)
        document(a, b, c, d, e, f) ==
            [normalMin |-> a, normalMax |-> b, warningMin |-> c, warningMax |-> d,
             criticalMin |-> e, criticalMax |-> f]
    IN  { document(lo, mid, lo, hi, below, above),
          document(mid, hi, lo, hi, lo, hi),
          document(lo, mid, mid, hi, hi, hi),
          document(mid, hi, lo, mid, lo, lo),
          document(hi, lo, mid, mid, above, below),
          document(mid, mid, mid, mid, mid, mid),
          document(lo, hi, mid, mid, lo, mid),
          document(below, above, lo, hi, mid, hi) }

InitStore ==
    /\ metric \in StoreMetricIds
    /\ rawValue = 0
    /\ thresholdsStore = NULL
    /\ metricData = derivedMetric(metric, 0, NULL, telemetryStores.recordedAt)
    /\ snapshot = NULL
    /\ ComponentIdle /\ PageIdle /\ LayoutIdle /\ ToastIdle /\ SocketIdle

\* the payloads passed to updateTelemetry: with the observed metric's field,
\* with recordedAt, or with the field of another metric only
TelemetryUpdates(m) ==
    { [field \in {valueField(m)} |-> v] : v \in TelemetryValues(m) }
        \cup { [recordedAt |-> dateOf("T1")], [recordedAt |-> dateOf("T2")] }
        \cup { [weightKg |-> 40] }

\* updateTelemetry(values): every raw value store whose field is present is
\* set, the observed metric's among them, and the derived store recomputed
\* from the stores it reads
updateTelemetry(values) ==
    LET stores == updatedStores(telemetryStores, values)
        value == IF valueField(metric) \in DOMAIN values
                 THEN values[valueField(metric)] ELSE rawValue
    IN  /\ telemetryStores' = stores
        /\ rawValue' = value
        /\ metricData' = derivedMetric(metric, value, thresholdsStore, stores.recordedAt)
        /\ UNCHANGED <<metric, thresholdsStore, snapshot>>

\* setThresholds(thresholds)
setThresholds(thresholds) ==
    /\ thresholdsStore' = thresholds
    /\ metricData' = derivedMetric(metric, rawValue, thresholds, telemetryStores.recordedAt)
    /\ UNCHANGED <<metric, rawValue, snapshot>>

UpdateTelemetry ==
    /\ \E values \in TelemetryUpdates(metric) : updateTelemetry(values)
    /\ UNCHANGED <<lastTelemetry, dispatched, received, pages, listening, connectionVars>>
    /\ UNCHANGED <<componentVars, pageVars, layout, toastVars>>

SetThresholds ==
    /\ \E thresholds \in DeliveredThresholds(metric) : setThresholds(thresholds)
    /\ UNCHANGED <<componentVars, pageVars, layout, toastVars, socketVars>>

\* a subscriber of the derived store reads its value, which is kept with
\* the contents of the stores it was derived from
ReadMetric ==
    /\ snapshot = NULL
    /\ metricData # NULL
    /\ snapshot' = [rawValue |-> rawValue, thresholds |-> thresholdsStore,
                    recordedAt |-> telemetryStores.recordedAt, output |-> metricData]
    /\ UNCHANGED <<metric, rawValue, thresholdsStore, metricData>>
    /\ UNCHANGED <<componentVars, pageVars, layout, toastVars, socketVars>>

NextStore == UpdateTelemetry \/ SetThresholds \/ ReadMetric

SpecStore == InitStore /\ [][NextStore]_vars

(***************************************************************************)
(* The percent and segment functions on the display ranges their callers   *)
(* pass: every call site passes a constant range with min < max.  A        *)
(* position is a rational [num, den].                                      *)
(***************************************************************************)
\* number of grid points above 0 for display bounds and thresholds
LayoutN == 3

LayoutPoints == { 10 * k : k \in 0..LayoutN }

LayoutValues == LayoutPoints \cup { -10, 10 * LayoutN + 10 }

LayoutRanges == { range \in LayoutPoints \X LayoutPoints : range[1] < range[2] }

\* the thresholds each topology's segment generator reads, the others held
\* at the display bounds
LayoutThresholds(topology, lo, hi) ==
    IF topology = "ascending"
    THEN { [normalMin |-> lo, normalMax |-> a, warningMin |-> a, warningMax |-> b,
            criticalMin |-> b, criticalMax |-> hi] : a \in LayoutPoints, b \in LayoutPoints }
    ELSE IF topology = "inverted"
    THEN { [normalMin |-> b, normalMax |-> hi, warningMin |-> a, warningMax |-> b,
            criticalMin |-> lo, criticalMax |-> a] : a \in LayoutPoints, b \in LayoutPoints }
    ELSE [ normalMin : LayoutPoints, normalMax : LayoutPoints,
           warningMin : {lo}, warningMax : {hi},
           criticalMin : LayoutPoints, criticalMax : LayoutPoints ]

\* telemetry-transform.ts: calculatePercent
calculatePercentTransform(value, lo, hi) ==
    LET clamped == MathMax(lo, MathMin(hi, value))
    IN  [num |-> (clamped - lo) * 100, den |-> hi - lo]

\* what the functions return for one set of arguments
layoutResult(topology, value, lo, hi, th) ==
    [ percent |-> calculatePercent(value, lo, hi),
      percentTransform |-> calculatePercentTransform(value, lo, hi),
      position |-> valueToPercent(value, lo, hi),
      segments |-> IF topology = "ascending"
                   THEN generateAscendingSegments(lo, hi, th.normalMax, th.warningMax)
                   ELSE IF topology = "inverted"
                   THEN generateInvertedSegments(lo, hi, th.warningMin, th.normalMin)
                   ELSE generateRangeSegments(lo, hi, th.criticalMin, th.normalMin,
                                              th.normalMax, th.criticalMax) ]

LayoutInit ==
    \E topology \in {"ascending", "inverted", "range"}, range \in LayoutRanges,
       value \in LayoutValues :
        \E th \in LayoutThresholds(topology, range[1], range[2]) :
            layout = [topology |-> topology, displayMin |-> range[1],
                      displayMax |-> range[2], value |-> value, thresholds |-> th,
                      result |-> NULL]

InitLayout == StoreIdle /\ ComponentIdle /\ PageIdle /\ LayoutInit /\ ToastIdle /\ SocketIdle

DeriveLayout ==
    /\ layout # NULL
    /\ layout' = [layout EXCEPT !.result =
                      layoutResult(layout.topology, layout.value, layout.displayMin,
                                   layout.displayMax, layout.thresholds)]
    /\ UNCHANGED <<storeVars, componentVars, pageVars, toastVars, socketVars>>

NextLayout == DeriveLayout

SpecLayout == InitLayout /\ [][NextLayout]_vars

(***************************************************************************)
(* The threshold component of one metric on the configuration page.        *)
(* Inputs: the display range passed as min/max (the page's, or the gauge's *)
(* configured one), the thresholds loaded from the server, and the         *)
(* positions of the two thumbs of the normal slider.                       *)
(***************************************************************************)
\* how many slider steps apart the thumbs of a narrow normal range are
NearSteps == 2

DisplayRanges(metricId) ==
    { <<transformThresholdsToMetrics[metricId].min, transformThresholdsToMetrics[metricId].max>>,
      <<cfg[metricId].displayMin, cfg[metricId].displayMax>> }

\* the slider step in whole units (a half-unit step reaches every integer)
sliderStepUnits(u, lo, hi) ==
    LET step == stepSize(u, lo, hi) IN IF step.den = 1 THEN step.num ELSE 1

SliderStride(u, lo, hi) ==
    (((hi - lo) \div SliderN) \div sliderStepUnits(u, lo, hi)) * sliderStepUnits(u, lo, hi)

SliderValues(u, lo, hi) ==
    { lo + k * SliderStride(u, lo, hi) : k \in 0..(SliderN - 1) }
        \cup { hi,
               lo + NearSteps * sliderStepUnits(u, lo, hi),
               hi - NearSteps * sliderStepUnits(u, lo, hi),
               lo + SliderStride(u, lo, hi) + NearSteps * sliderStepUnits(u, lo, hi) }

SliderPairs(u, lo, hi) == SliderValues(u, lo, hi) \X SliderValues(u, lo, hi)

boundProps(nRange, wRange, cRange) ==
    [normalMin |-> nRange[1], normalMax |-> nRange[2],
     warningMin |-> wRange[1], warningMax |-> wRange[2],
     criticalMin |-> cRange[1], criticalMax |-> cRange[2]]

\* the component after mount: the ranges are initialised from the props; the
\* local version has already run its adjusting and prop-updating effects
ComponentInit ==
    /\ variant \in {"centralized", "local"}
    /\ id \in ComponentIds
    /\ unit = transformThresholdsToMetrics[id].unit
    /\ \E range \in DisplayRanges(id) : min = range[1] /\ max = range[2]
    /\ normalRange \in { pair \in SliderPairs(unit, min, max) : pair[1] < pair[2] }
    /\ \E loaded \in { <<min, max>>, normalRange } :
          LET ranges == IF variant = "local"
                        THEN localAutoAdjust(id, unit, min, max, normalRange[1], normalRange[2],
                                 [warningRange |-> loaded, criticalRange |-> <<min, max>>])
                        ELSE [warningRange |-> loaded, criticalRange |-> <<min, max>>]
          IN  /\ warningRange = ranges.warningRange
              /\ criticalRange = ranges.criticalRange
    /\ validationErrors = <<>>
    /\ bound = boundProps(normalRange, warningRange, criticalRange)
    /\ sliderInput = NULL

\* centralized version: onValueChange of the normal slider, followed by the
\* effect that re-synchronises the ranges from the props
onNormalSliderChange(newValue) ==
    LET handled == handleNormalRangeChange(id, min, max, newValue,
                                           warningRange, criticalRange, bound)
        synced == syncFromProps(id, unit, min, max, newValue,
                                handled.warningRange, handled.criticalRange, handled.bound)
    IN  /\ variant = "centralized"
        /\ validationErrors' = handled.validationErrors
        /\ bound' = handled.bound
        /\ normalRange' = synced.normalRange
        /\ warningRange' = synced.warningRange
        /\ criticalRange' = synced.criticalRange
        /\ UNCHANGED <<variant, id, unit, min, max, sliderInput>>

\* local version: the normal slider is bound to normalRange; the effects then
\* copy it to the props, adjust warning and critical from the props and copy
\* those to the props as well
localNormalSliderChange(newValue) ==
    LET ranges == localAutoAdjust(id, unit, min, max, newValue[1], newValue[2],
                      [warningRange |-> warningRange, criticalRange |-> criticalRange])
    IN  /\ variant = "local"
        /\ normalRange' = newValue
        /\ warningRange' = ranges.warningRange
        /\ criticalRange' = ranges.criticalRange
        /\ bound' = boundProps(newValue, ranges.warningRange, ranges.criticalRange)
        /\ UNCHANGED <<variant, id, unit, min, max, validationErrors, sliderInput>>

(***************************************************************************)
(* toast.store.ts: the toast store.  A toast is a record with the fields   *)
(* the caller passed plus id and duration.                                 *)
(***************************************************************************)
\* how many toasts are created in one behaviour
MaxToasts == 2

\* the toast that add() builds from its input and a fresh id
newToast(toast, newId) ==
    [id |-> newId,
     duration |-> IF "duration" \in DOMAIN toast THEN toast.duration ELSE 5000] @@ toast

\* toasts.filter((t) => t.id !== id)
withoutToast(list, toastId) == SelectSeq(list, LAMBDA t : t.id # toastId)

toastIds(list) == { list[i].id : i \in 1..Len(list) }

\* the subscriber setting a timer for every toast, whatever its duration
subscriberTimers_timesEveryToast(timers, previous, currentToasts) ==
    (timers \ (toastIds(previous) \ toastIds(currentToasts))) \cup toastIds(currentToasts)

\* toast-provider.svelte: the subscriber's timer map after it has seen the
\* list currentToasts
subscriberTimers(timers, previous, currentToasts) ==
    (timers \ (toastIds(previous) \ toastIds(currentToasts)))
        \cup { currentToasts[i].id : i \in { j \in 1..Len(currentToasts) :
                                              currentToasts[j].duration > 0 } }

\* the last call made on the store or by a timer, with the id it returned or
\* was given (called is the record of it)
lastCall(method) == called # NULL /\ called.method = method

\* the store's update(): the new list is stored and the mounted provider's
\* subscriber runs on it
storeUpdate(newList) ==
    /\ toasts' = newList
    /\ IF mounted
       THEN /\ providerToasts' = newList
            /\ dismissTimers' = subscriberTimers(dismissTimers, providerToasts, newList)
       ELSE UNCHANGED <<providerToasts, dismissTimers>>

\* toastStore.add(toast)
add(toast) ==
    /\ nextToastId <= MaxToasts
    /\ storeUpdate(Append(toasts, newToast(toast, nextToastId)))
    /\ nextToastId' = nextToastId + 1
    /\ called' = [method |-> "add", description |-> toast.description, id |-> nextToastId]
    /\ UNCHANGED <<mounted, freshToasts>>

(***************************************************************************)
(* The configurations page: the pre-submit check of the Update button.     *)
(***************************************************************************)
\* validateMetrics() for the page's entry of one metric
validateMetrics(metricId, entry) ==
    IF metricId = "weight" THEN <<>>
    ELSE IF entry.normalMin >= entry.normalMax
    THEN << "Normal minimum must be less than Normal maximum" >>
    ELSE <<>>

handleUpdate ==
    LET errors == validateMetrics(id, bound)
    IN  IF Len(errors) > 0
        THEN /\ add([title |-> "Validation Error", description |-> errors[1],
                     variant |-> "destructive", duration |-> 5000])
             /\ UNCHANGED showConfirmDialog
        ELSE /\ showConfirmDialog' = TRUE
             /\ UNCHANGED toastVars

InitConfig == StoreIdle /\ ComponentInit /\ PageIdle /\ LayoutIdle /\ ToastIdle /\ SocketIdle

OnNormalSliderChange ==
    \E newValue \in SliderPairs(unit, min, max) :
        /\ onNormalSliderChange(newValue)
        /\ UNCHANGED <<storeVars, pageVars, layout, toastVars, socketVars>>

LocalNormalSliderChange ==
    \E newValue \in SliderPairs(unit, min, max) :
        /\ localNormalSliderChange(newValue)
        /\ UNCHANGED <<storeVars, pageVars, layout, toastVars, socketVars>>

HandleUpdate ==
    /\ variant # "none"
    /\ handleUpdate
    /\ UNCHANGED <<storeVars, componentVars, layout, socketVars>>
    /\ UNCHANGED <<updating, originalMetrics, request, response,
                    weightMonitoring, originalWeightMonitoring>>

NextConfig == OnNormalSliderChange \/ LocalNormalSliderChange \/ HandleUpdate

SpecConfig == InitConfig /\ [][NextConfig]_vars

(***************************************************************************)
(* metric-threshold.svelte: the warning and critical sliders of the        *)
(* centralized version.                                                    *)
(***************************************************************************)
\* onWarningSliderChange without the isAutoAdjusted guard
onWarningSliderChange_unguarded(newValue) ==
    /\ variant = "centralized"
    /\ sliderInput' = [slider |-> "warning", value |-> newValue]
    /\ warningRange' = newValue
    /\ bound' = [bound EXCEPT !.warningMin = newValue[1], !.warningMax = newValue[2]]
    /\ UNCHANGED <<variant, id, unit, min, max, normalRange, criticalRange,
                   validationErrors>>

\* onWarningSliderChange(newValue); after a manual change the props equal
\* the range, so the synchronising effect has nothing to do
onWarningSliderChange(newValue) ==
    /\ variant = "centralized"
    /\ sliderInput' = [slider |-> "warning", value |-> newValue]
    /\ IF isAutoAdjusted(id)
       THEN UNCHANGED <<warningRange, bound>>
       ELSE /\ warningRange' = newValue
            /\ bound' = [bound EXCEPT !.warningMin = newValue[1],
                                      !.warningMax = newValue[2]]
    /\ UNCHANGED <<variant, id, unit, min, max, normalRange, criticalRange,
                   validationErrors>>

\* onCriticalSliderChange(newValue)
onCriticalSliderChange(newValue) ==
    /\ variant = "centralized"
    /\ sliderInput' = [slider |-> "critical", value |-> newValue]
    /\ IF isAutoAdjusted(id)
       THEN UNCHANGED <<criticalRange, bound>>
       ELSE /\ criticalRange' = newValue
            /\ bound' = [bound EXCEPT !.criticalMin = newValue[1],
                                      !.criticalMax = newValue[2]]
    /\ UNCHANGED <<variant, id, unit, min, max, normalRange, warningRange,
                   validationErrors>>

\* the pairs the warning and critical sliders report: the whole display
\* range, its lower part and a collapsed pair
ReportedPairs(u, lo, hi) ==
    { <<lo, hi>>, <<lo, lo + SliderStride(u, lo, hi)>>,
      <<lo + SliderStride(u, lo, hi), lo + SliderStride(u, lo, hi)>> }

\* the component as the page mounts it: the display range of
\* transformThresholdsToMetrics, warning and critical loaded as that range
InitSliders ==
    /\ InitConfig /\ variant = "centralized"
    /\ min = transformThresholdsToMetrics[id].min
    /\ max = transformThresholdsToMetrics[id].max
    /\ warningRange = <<min, max>>

\* the normal slider reports one of the pairs it is moved to here: the
\* lower part of the display range, the whole of it, or a reversed pair
MoveNormalSlider ==
    /\ \E newValue \in { <<min, min + SliderStride(unit, min, max)>>, <<min, max>>,
                         <<max, min>> } :
          onNormalSliderChange(newValue)
    /\ UNCHANGED <<storeVars, pageVars, layout, toastVars, socketVars>>

OnWarningSliderChange ==
    /\ \E newValue \in ReportedPairs(unit, min, max) : onWarningSliderChange(newValue)
    /\ UNCHANGED <<storeVars, pageVars, layout, toastVars, socketVars>>

OnCriticalSliderChange ==
    /\ \E newValue \in ReportedPairs(unit, min, max) : onCriticalSliderChange(newValue)
    /\ UNCHANGED <<storeVars, pageVars, layout, toastVars, socketVars>>

NextSliders == MoveNormalSlider \/ OnWarningSliderChange \/ OnCriticalSliderChange

SpecSliders == InitSliders /\ [][NextSliders]_vars

(***************************************************************************)
(* The configurations page: submitting an update.  The page holds the      *)
(* entry of the mounted metric in its metrics list (bound, which the       *)
(* component's props are bound to) and a clone of the loaded entry in      *)
(* originalMetrics.                                                        *)
(***************************************************************************)
\* the name a metric's thresholds carry in the backend's Thresholds object
thresholdsPrefix ==
    [ temp |-> "temp", humidity |-> "humidity", activity |-> "sound", co2 |-> "co2",
      honey |-> "honeyGain", swarm |-> "swarmRisk", battery |-> "battery" ]

\* transformMetricsToThresholds: the metric's six bounds under the backend's name
transformMetricsToThresholds(metricId, entry) ==
    [prefix |-> thresholdsPrefix[metricId],
     NormalMin |-> entry.normalMin, NormalMax |-> entry.normalMax,
     WarningMin |-> entry.warningMin, WarningMax |-> entry.warningMax,
     CriticalMin |-> entry.criticalMin, CriticalMax |-> entry.criticalMax]

\* the bounds transformThresholdsToMetrics gives the metric's entry
metricsOfThresholds(metricId, thresholds) ==
    IF thresholds.prefix = thresholdsPrefix[metricId]
    THEN [normalMin |-> thresholds.NormalMin, normalMax |-> thresholds.NormalMax,
          warningMin |-> thresholds.WarningMin, warningMax |-> thresholds.WarningMax,
          criticalMin |-> thresholds.CriticalMin, criticalMax |-> thresholds.CriticalMax]
    ELSE NULL

\* hasChanges: either list differs from its clone
hasChanges ==
    /\ originalMetrics # NULL /\ bound # NULL
    /\ (bound # originalMetrics \/ weightMonitoring # originalWeightMonitoring)

\* the pairs the page's normal slider is moved to: the lower part of the
\* display range, the whole of it, and a reversed pair
PagePairs(u, lo, hi) ==
    { <<lo, lo + SliderStride(u, lo, hi)>>, <<lo, hi>>, <<hi, lo>> }

\* the values of weightWarningDailyLossG the page sees
WeightLossValues == {300, 350}

\* what the server may answer to an update: the thresholds it was sent, or
\* the same normal range with warning and critical reset to the display range
ServerThresholds(metricId, sent) ==
    { sent,
      [weightWarningDailyLossG |-> sent.weightWarningDailyLossG] @@
      transformMetricsToThresholds(metricId,
          boundProps(<<sent.NormalMin, sent.NormalMax>>,
                     <<transformThresholdsToMetrics[metricId].min,
                       transformThresholdsToMetrics[metricId].max>>,
                     <<transformThresholdsToMetrics[metricId].min,
                       transformThresholdsToMetrics[metricId].max>>)) }

\* confirmUpdate() up to the await: the request leaves with the page's
\* metrics and weight monitoring thresholds
confirmUpdate ==
    /\ updating' = TRUE
    /\ showConfirmDialog' = FALSE
    /\ request' = [weightWarningDailyLossG |-> weightMonitoring]
                     @@ transformMetricsToThresholds(id, bound)
    /\ response' = NULL
    /\ UNCHANGED <<originalMetrics, weightMonitoring, originalWeightMonitoring>>

\* confirmUpdate() refreshing only the clone when the server has answered
updateResolved_keepsEdits(data) ==
    /\ response' = [ok |-> TRUE, data |-> data]
    /\ request' = NULL
    /\ originalMetrics' = metricsOfThresholds(id, data)
    /\ originalWeightMonitoring' = data.weightWarningDailyLossG
    /\ UNCHANGED <<bound, normalRange, warningRange, criticalRange, weightMonitoring>>
    /\ add([title |-> "Success",
            description |-> "Threshold configurations updated successfully.",
            variant |-> "success", duration |-> 3000])
    /\ updating' = FALSE
    /\ UNCHANGED <<showConfirmDialog, variant, id, unit, min, max, validationErrors,
                       sliderInput>>

\* confirmUpdate() after the await resolved with the server's thresholds:
\* metrics, weightMonitoring and their clones are replaced, the component's
\* effect re-synchronises its ranges from the new props, the success toast
\* is shown and the finally block clears updating
updateResolved(data) ==
    LET entry == metricsOfThresholds(id, data)
        synced == syncFromProps(id, unit, min, max, normalRange, warningRange,
                                criticalRange, entry)
    IN  /\ response' = [ok |-> TRUE, data |-> data]
        /\ request' = NULL
        /\ bound' = entry
        /\ originalMetrics' = entry
        /\ weightMonitoring' = data.weightWarningDailyLossG
        /\ originalWeightMonitoring' = data.weightWarningDailyLossG
        /\ normalRange' = synced.normalRange
        /\ warningRange' = synced.warningRange
        /\ criticalRange' = synced.criticalRange
        /\ add([title |-> "Success",
                description |-> "Threshold configurations updated successfully.",
                variant |-> "success", duration |-> 3000])
        /\ updating' = FALSE
        /\ UNCHANGED <<showConfirmDialog, variant, id, unit, min, max, validationErrors,
                       sliderInput>>

\* constants.ts: ERROR_MESSAGES
ERROR_MESSAGES ==
    [ GENERIC |-> "An unexpected error occurred. Please try again.",
      NETWORK |-> "Network error. Please check your connection.",
      UNAUTHORIZED |-> "You are not authorized to perform this action.",
      NOT_FOUND |-> "The requested resource was not found.",
      VALIDATION |-> "Please check your input and try again." ]

\* a thrown value: typeof tells an object (an Error or an ApiError, with the
\* fields it carries) from a primitive
isObject(err) == err.typeof = "object"

\* errors.ts: handleApiError(error, false): the object's message when it is
\* not empty, else the text of status 401, 404 or 0, else the generic text;
\* a primitive is no instance of Error, so it gets the generic text
handleApiError(err) ==
    IF isObject(err)
    THEN IF "message" \in DOMAIN err /\ err.message # "" THEN err.message
         ELSE IF "status" \in DOMAIN err /\ err.status = 401 THEN ERROR_MESSAGES.UNAUTHORIZED
         ELSE IF "status" \in DOMAIN err /\ err.status = 404 THEN ERROR_MESSAGES.NOT_FOUND
         ELSE IF "status" \in DOMAIN err /\ err.status = 0 THEN ERROR_MESSAGES.NETWORK
         ELSE ERROR_MESSAGES.GENERIC
    ELSE ERROR_MESSAGES.GENERIC

\* the values the update request may reject with: an Error with a message,
\* an ApiError without a message for a lost connection, and a thrown string
ApiErrors ==
    { [typeof |-> "object", message |-> "Request failed with status 500"],
      [typeof |-> "object", message |-> "", status |-> 0],
      [typeof |-> "string", value |-> "boom"] }

\* confirmUpdate() after the await rejected with err: the failure toast
\* carries handleApiError's text (the page's own text only if that were
\* empty) and the finally block clears updating
updateRejected(err) ==
    /\ response' = [ok |-> FALSE]
    /\ request' = NULL
    /\ LET errorMessage == handleApiError(err)
       IN  add([title |-> "Update Failed",
                description |-> IF errorMessage # "" THEN errorMessage
                                ELSE "Failed to update threshold configurations.",
                variant |-> "destructive", duration |-> 5000])
    /\ updating' = FALSE
    /\ UNCHANGED <<showConfirmDialog, originalMetrics, weightMonitoring,
                   originalWeightMonitoring, componentVars>>

\* the normal ranges the server may hold when the page loads: a proper one
\* and a collapsed one
LoadedNormalRanges(u, lo, hi) ==
    { <<lo, lo + SliderStride(u, lo, hi)>>,
      <<lo + SliderStride(u, lo, hi), lo + SliderStride(u, lo, hi)>> }

\* the entries of the page that are followed: one range metric, one
\* ascending and one inverted
PageMetricIds == {"temp", "co2", "battery"}

\* the page after onMount has loaded the thresholds: the component is
\* mounted on the loaded entry, and originalMetrics and
\* originalWeightMonitoring are clones of what was loaded
PageInit ==
    /\ variant = "centralized"
    /\ id \in PageMetricIds
    /\ unit = transformThresholdsToMetrics[id].unit
    /\ min = transformThresholdsToMetrics[id].min
    /\ max = transformThresholdsToMetrics[id].max
    /\ normalRange \in LoadedNormalRanges(unit, min, max)
    /\ warningRange = <<min, max>> /\ criticalRange = <<min, max>>
    /\ validationErrors = <<>>
    /\ bound = boundProps(normalRange, warningRange, criticalRange)
    /\ sliderInput = NULL
    /\ originalMetrics = bound
    /\ weightMonitoring = 300
    /\ originalWeightMonitoring = weightMonitoring
    /\ showConfirmDialog = FALSE /\ updating = FALSE
    /\ request = NULL /\ response = NULL

InitPage == StoreIdle /\ PageInit /\ LayoutIdle /\ ToastIdle /\ SocketIdle

\* the user moves the normal slider; the open dialog is modal
EditNormalRange ==
    /\ ~showConfirmDialog
    /\ \E newValue \in PagePairs(unit, min, max) : onNormalSliderChange(newValue)
    /\ UNCHANGED <<storeVars, pageVars, layout, toastVars, socketVars>>

\* the user edits the weight monitoring threshold
EditWeightMonitoring ==
    /\ ~showConfirmDialog
    /\ \E newValue \in WeightLossValues \ {weightMonitoring} : weightMonitoring' = newValue
    /\ UNCHANGED <<showConfirmDialog, updating, originalMetrics, request, response,
                   originalWeightMonitoring>>
    /\ UNCHANGED <<storeVars, componentVars, layout, toastVars, socketVars>>

\* the Update button, disabled while there are no changes
ClickUpdate ==
    /\ ~showConfirmDialog
    /\ hasChanges
    /\ HandleUpdate

\* the dialog's Cancel button, disabled while updating
CancelUpdate ==
    /\ showConfirmDialog /\ ~updating
    /\ showConfirmDialog' = FALSE
    /\ UNCHANGED <<updating, originalMetrics, request, response, weightMonitoring,
                   originalWeightMonitoring>>
    /\ UNCHANGED <<storeVars, componentVars, layout, toastVars, socketVars>>

\* the dialog's Confirm button, disabled while updating
ConfirmUpdate ==
    /\ showConfirmDialog /\ ~updating
    /\ confirmUpdate
    /\ UNCHANGED <<storeVars, componentVars, layout, toastVars, socketVars>>

UpdateResolved ==
    /\ request # NULL
    /\ \E data \in ServerThresholds(id, request) : updateResolved(data)
    /\ UNCHANGED <<storeVars, layout, socketVars>>

UpdateRejected ==
    /\ request # NULL
    /\ \E err \in ApiErrors : updateRejected(err)
    /\ UNCHANGED <<storeVars, layout, socketVars>>

NextPage ==
    \/ EditNormalRange \/ EditWeightMonitoring \/ ClickUpdate \/ CancelUpdate
    \/ ConfirmUpdate \/ UpdateResolved \/ UpdateRejected

SpecPage == InitPage /\ [][NextPage]_vars

(***************************************************************************)
(* toast.store.ts, toast-provider.svelte, toast.ts and the alert handler   *)
(* of websocket.service.ts.  An alert type is a string of the server's     *)
(* choice; includes() and replace() search it character by character.      *)
(***************************************************************************)
\* toastStore.dismiss(id)
dismiss(toastId) ==
    /\ storeUpdate(withoutToast(toasts, toastId))
    /\ called' = [method |-> "dismiss", id |-> toastId]
    /\ UNCHANGED <<mounted, freshToasts, nextToastId>>

\* toastStore.clear()
clear ==
    /\ storeUpdate(<<>>)
    /\ called' = [method |-> "clear"]
    /\ UNCHANGED <<mounted, freshToasts, nextToastId>>

ConvenienceVariant ==
    [success |-> "success", error |-> "destructive", warning |-> "warning", info |-> "info"]

\* toastStore.success / error / warning / info (description, title?, duration?):
\* createToastStore().add(...) adds the toast to a store created on the spot
convenience(method, input) ==
    /\ nextToastId <= MaxToasts
    /\ freshToasts' =
           << newToast([variant |-> ConvenienceVariant[method]] @@ input, nextToastId) >>
    /\ nextToastId' = nextToastId + 1
    /\ called' = [method |-> method, description |-> input.description, id |-> nextToastId]
    /\ UNCHANGED <<toasts, mounted, providerToasts, dismissTimers>>

\* showAlertToast with every alert that is not a success classified critical
showAlertToast_allCritical(type, message, playSound) ==
    LET toastVariant ==
            IF includes(type, "CLEARED") \/ includes(type, "NORMALIZED")
            THEN "success" ELSE "destructive"
    IN  add([title |-> replaceAll(type, "_", " "), description |-> message,
             variant |-> toastVariant,
             duration |-> IF toastVariant = "destructive" THEN 8000 ELSE 5000,
             playSound |-> playSound /\ toastVariant = "destructive"])

\* toast.ts: showAlertToast(type, message, playSound)
showAlertToast(type, message, playSound) ==
    LET toastVariant ==
            IF includes(type, "CLEARED") \/ includes(type, "NORMALIZED")
            THEN "success"
            ELSE IF \/ includes(type, "TEMP_HIGH")
                    \/ includes(type, "SWARM_RISK")
                    \/ includes(type, "WEIGHT_DROP")
            THEN "destructive"
            ELSE "warning"
        title == IF includes(type, "CLEARED")
                 THEN replaceAll(replace(type, "_CLEARED", ""), "_", " ") \o " Cleared"
                 ELSE replaceAll(type, "_", " ")
        isCritical == toastVariant = "destructive"
        isWarning == toastVariant = "warning"
    IN  add([title |-> title, description |-> message, variant |-> toastVariant,
             duration |-> IF isCritical THEN 8000 ELSE IF isWarning THEN 6000 ELSE 5000,
             playSound |-> playSound /\ (isCritical \/ isWarning)])

\* window.dispatchEvent(new CustomEvent(event, {detail})); n counts the
\* events dispatched so far
dispatch(event, detail) ==
    dispatched' = [event |-> event, detail |-> detail,
                   n |-> IF dispatched = NULL THEN 1 ELSE dispatched.n + 1]

\* websocket.service.ts: handleAlert(payload)
handleAlert(payload) ==
    /\ IF payload.action = "triggered"
       THEN showAlertToast(payload.alert.type, payload.alert.message, TRUE)
       ELSE IF payload.action = "cleared"
       THEN showAlertToast(payload.alert.type \o "_CLEARED", payload.alert.message, FALSE)
       ELSE UNCHANGED toastVars
    /\ dispatch("alert-update", payload)

\* the inputs of toastStore.add and of the convenience methods
ToastInputs ==
    { [description |-> "saved", variant |-> "default"],
      [description |-> "pinned", variant |-> "info", duration |-> 0] }

ConvenienceInputs ==
    { [description |-> "done"], [description |-> "sticky", duration |-> 0] }

AlertTypes ==
    { "TEMP_HIGH", "SWARM_RISK", "WEIGHT_DROP", "WEIGHT_DROPPED", "HUMIDITY_LOW",
      "TEMP_NORMALIZED" }

AlertPayloads ==
    { [action |-> action, alert |-> [type |-> type, message |-> "alert message"]] :
          action \in {"triggered", "cleared"}, type \in AlertTypes }

InitToast ==
    /\ StoreIdle /\ ComponentIdle /\ PageIdle /\ LayoutIdle /\ SocketIdle
    /\ toasts = <<>> /\ freshToasts = <<>> /\ nextToastId = 1 /\ called = NULL
    /\ mounted \in BOOLEAN /\ providerToasts = <<>> /\ dismissTimers = {}

Add ==
    /\ \E toast \in ToastInputs : add(toast)
    /\ UNCHANGED <<storeVars, componentVars, pageVars, layout, socketVars>>

Convenience ==
    /\ \E method \in DOMAIN ConvenienceVariant, input \in ConvenienceInputs :
           convenience(method, input)
    /\ UNCHANGED <<storeVars, componentVars, pageVars, layout, socketVars>>

\* the close button of a toast, or any other caller of dismiss
Dismiss ==
    /\ \E toastId \in toastIds(toasts) : dismiss(toastId)
    /\ UNCHANGED <<storeVars, componentVars, pageVars, layout, socketVars>>

Clear ==
    /\ toasts # <<>>
    /\ clear
    /\ UNCHANGED <<storeVars, componentVars, pageVars, layout, socketVars>>

\* onMount of the provider: it subscribes and the callback runs at once on
\* the current list
Mount ==
    /\ ~mounted
    /\ mounted' = TRUE
    /\ providerToasts' = toasts
    /\ dismissTimers' = subscriberTimers({}, <<>>, toasts)
    /\ UNCHANGED <<toasts, freshToasts, nextToastId, called>>
    /\ UNCHANGED <<storeVars, componentVars, pageVars, layout, socketVars>>

\* the cleanup of the provider: unsubscribe, clear every timer
Unmount ==
    /\ mounted
    /\ mounted' = FALSE
    /\ providerToasts' = <<>>
    /\ dismissTimers' = {}
    /\ UNCHANGED <<toasts, freshToasts, nextToastId, called>>
    /\ UNCHANGED <<storeVars, componentVars, pageVars, layout, socketVars>>

\* the auto-dismiss timer of one toast fires: dismiss, then delete the timer
TimerFire(toastId) ==
    /\ toastId \in dismissTimers
    /\ toasts' = withoutToast(toasts, toastId)
    /\ providerToasts' = toasts'
    /\ dismissTimers' = subscriberTimers(dismissTimers, providerToasts, toasts') \ {toastId}
    /\ called' = [method |-> "timer", id |-> toastId]
    /\ UNCHANGED <<mounted, freshToasts, nextToastId>>
    /\ UNCHANGED <<storeVars, componentVars, pageVars, layout, socketVars>>

TimerFires == \E toastId \in 1..MaxToasts : TimerFire(toastId)

HandleAlert ==
    /\ \E payload \in AlertPayloads : handleAlert(payload)
    /\ UNCHANGED <<storeVars, componentVars, pageVars, layout, lastTelemetry, received,
                   dashboardVars, connectionVars>>

NextToast ==
    Add \/ Convenience \/ Dismiss \/ Clear \/ Mount \/ Unmount \/ TimerFires \/ HandleAlert

SpecToast == InitToast /\ [][NextToast]_vars

\* every pending timer eventually fires
SpecToastLive ==
    SpecToast /\ \A toastId \in 1..MaxToasts : WF_vars(TimerFire(toastId))

(***************************************************************************)
(* websocket.service.ts and websocket.store.ts: the telemetry handler.  A  *)
(* telemetry object is a record of the fields it carries.                  *)
(***************************************************************************)
\* how many telemetry payloads arrive in one behaviour
MaxPayloads == 3

\* x instanceof Date ? x : new Date(x); the empty string is no date and gives
\* the Invalid Date
toDate(recordedAt) ==
    IF recordedAt.type = "Date" THEN recordedAt
    ELSE IF recordedAt.value = "" THEN dateOf("Invalid Date")
    ELSE dateOf(recordedAt.value)

\* the truthiness of data.recordedAt: absent and the empty string are falsy
truthy(data, field) ==
    /\ field \in DOMAIN data
    /\ ~(data[field].type = "string" /\ data[field].value = "")

\* the delta merged the wrong way round: the fields of the previous telemetry win
mergeDelta_previousWins(currentTelemetry, data) ==
    currentTelemetry @@ data

\* { ...currentTelemetry, ...payload.data, recordedAt: ... }
mergeDelta(currentTelemetry, data) ==
    [recordedAt |-> IF "recordedAt" \in DOMAIN data /\ data.recordedAt.type = "Date"
                    THEN data.recordedAt
                    ELSE IF truthy(data, "recordedAt")
                    THEN toDate(data.recordedAt)
                    ELSE currentTelemetry.recordedAt] @@ data @@ currentTelemetry

\* websocketStore.setLastTelemetry(telemetry)
setLastTelemetry(telemetry) == lastTelemetry' = telemetry

\* handleTelemetryUpdate(payload)
handleTelemetryUpdate(payload) ==
    /\ IF "full" \in DOMAIN payload
       THEN setLastTelemetry([recordedAt |-> toDate(payload.full.recordedAt)] @@ payload.full)
       ELSE IF DOMAIN payload.data # {} /\ lastTelemetry # NULL
       THEN setLastTelemetry(mergeDelta(lastTelemetry, payload.data))
       ELSE UNCHANGED lastTelemetry
    /\ dispatch("telemetry-update",
                IF "full" \in DOMAIN payload THEN payload.full ELSE payload.data)
    /\ received' = Append(received, payload)

\* the complete telemetry objects the gateway sends on connection
FullTelemetry ==
    { [id |-> "a", recordedAt |-> isoString("T1"), temperature |-> 34, dailyHoneyGainG |-> 12],
      [id |-> "b", recordedAt |-> dateOf("T2"), temperature |-> 35] }

\* the delta objects: the changed fields only
DeltaData ==
    { [field \in {} |-> 0],
      [temperature |-> 36],
      [dailyHoneyGainG |-> 20],
      [temperature |-> 37, recordedAt |-> isoString("T3")],
      [recordedAt |-> dateOf("T4")],
      [temperature |-> 38, recordedAt |-> isoString("")] }

TelemetryPayloads ==
    { [data |-> data] : data \in DeltaData }
        \cup { [data |-> data, full |-> full] :
                   data \in {[field \in {} |-> 0], [temperature |-> 36]}, full \in FullTelemetry }

InitSocket ==
    /\ StoreIdle /\ ComponentIdle /\ PageIdle /\ LayoutIdle /\ ToastIdle
    /\ lastTelemetry = NULL /\ dispatched = NULL /\ received = <<>>
    /\ DashboardIdle /\ ConnectionIdle

\* socket.on('telemetry', ...)
HandleTelemetryUpdate ==
    /\ Len(received) < MaxPayloads
    /\ \E payload \in TelemetryPayloads : handleTelemetryUpdate(payload)
    /\ UNCHANGED <<storeVars, componentVars, pageVars, layout, toastVars, dashboardVars,
                   connectionVars>>

NextSocket == HandleTelemetryUpdate

SpecSocket == InitSocket /\ [][NextSocket]_vars

(***************************************************************************)
(* The dashboard page feeding the raw value stores of telemetry.store.ts:  *)
(* temperature, dailyHoneyGainG (an optional field of the telemetry) and   *)
(* recordedAt.                                                             *)
(***************************************************************************)
\* the object the dashboard's handleTelemetryUpdate passes to
\* updateTelemetry: the fields of the event's detail, and recordedAt
\* converted with new Date(...) when it is not a Date already
listenerValues(update) ==
    [recordedAt |-> IF "recordedAt" \in DOMAIN update
                    THEN toDate(update.recordedAt)
                    ELSE dateOf("Invalid Date")]
        @@ [field \in (DOMAIN update \cap {"temperature", "dailyHoneyGainG"}) |->
                update[field]]

\* the object onMount passes to updateTelemetry after the REST load
loadedValues(telemetry) ==
    [temperature |-> telemetry.temperature,
     dailyHoneyGainG |-> IF "dailyHoneyGainG" \in DOMAIN telemetry
                         THEN telemetry.dailyHoneyGainG ELSE 0,
     recordedAt |-> toDate(telemetry.recordedAt)]

\* the threshold documents thresholdsService.getThresholds() answers with
\* while the dashboard is followed, as the temperature gauge reads them
LoadedThresholds ==
    { [normalMin |-> 32, normalMax |-> 36, warningMin |-> 27, warningMax |-> 41,
       criticalMin |-> 15, criticalMax |-> 45],
      [normalMin |-> 30, normalMax |-> 35, warningMin |-> 25, warningMax |-> 40,
       criticalMin |-> 15, criticalMax |-> 45] }

\* the page before onMount has run: the stores as the module creates them,
\* the temperature gauge being the observed derived store
InitDashboard ==
    /\ metric = "temp" /\ rawValue = 0 /\ thresholdsStore = NULL
    /\ metricData = derivedMetric("temp", 0, NULL, telemetryStores.recordedAt)
    /\ snapshot = NULL
    /\ ComponentIdle /\ PageIdle /\ LayoutIdle /\ ToastIdle
    /\ lastTelemetry = NULL /\ dispatched = NULL /\ received = <<>>
    /\ DashboardIdle /\ ConnectionIdle

\* the instances of the page whose component exists: loading while onMount
\* awaits, then ready or failed
alivePages == { page \in 1..MaxPages : pages[page] \in {"loading", "ready", "failed"} }

\* the instances whose onMount still awaits its import or its REST calls,
\* the component existing ("loading") or destroyed meanwhile ("leftLoading")
pendingPages == { page \in 1..MaxPages : pages[page] \in {"loading", "leftLoading"} }

\* the state of an instance once its onMount has run to its end
settled(page, outcome) == IF pages[page] = "loading" THEN outcome ELSE "gone"

\* the route renders the page: onMount starts and awaits
DashboardMounted ==
    /\ alivePages = {}
    /\ \E page \in 1..MaxPages :
          /\ pages[page] = "none"
          /\ \A earlier \in 1..(page - 1) : pages[earlier] # "none"
          /\ pages' = [pages EXCEPT ![page] = "loading"]
    /\ UNCHANGED <<telemetryStores, listening, lastTelemetry, dispatched, received,
                   connectionVars>>
    /\ UNCHANGED <<storeVars, componentVars, pageVars, layout, toastVars>>

\* onMount after its awaits: both REST calls have answered; setThresholds
\* stores the thresholds document, updateTelemetry initialises the raw
\* value stores (the derived store recomputes) and the listener of this
\* instance is registered, whether or not the instance still exists
RestLoaded(page) ==
    /\ page \in pendingPages
    /\ \E telemetry \in FullTelemetry, thresholds \in LoadedThresholds :
          /\ thresholdsStore' = thresholds
          /\ telemetryStores' = updatedStores(telemetryStores, loadedValues(telemetry))
          /\ rawValue' = telemetry.temperature
          /\ metricData' = derivedMetric(metric, telemetry.temperature, thresholds,
                                         toDate(telemetry.recordedAt))
    /\ listening' = listening \cup {page}
    /\ pages' = [pages EXCEPT ![page] = settled(page, "ready")]
    /\ UNCHANGED <<metric, snapshot, lastTelemetry, dispatched, received, connectionVars>>
    /\ UNCHANGED <<componentVars, pageVars, layout, toastVars>>

\* onMount after an await that rejected: the catch block keeps the error
\* text for the page; no store is set and no listener registered
RestFailed(page) ==
    /\ page \in pendingPages
    /\ pages' = [pages EXCEPT ![page] = settled(page, "failed")]
    /\ UNCHANGED <<telemetryStores, listening, lastTelemetry, dispatched, received,
                   connectionVars>>
    /\ UNCHANGED <<storeVars, componentVars, pageVars, layout, toastVars>>

\* socket.on('telemetry', ...): the service handles the payload and
\* dispatches 'telemetry-update', on which every registered listener runs
\* its handleTelemetryUpdate(event); the listeners pass the same values to
\* updateTelemetry
TelemetryMessage ==
    /\ Len(received) < MaxPayloads
    /\ \E payload \in TelemetryPayloads :
          LET values == listenerValues(IF "full" \in DOMAIN payload
                                       THEN payload.full ELSE payload.data)
          IN  /\ handleTelemetryUpdate(payload)
              /\ IF listening # {}
                 THEN updateTelemetry(values)
                 ELSE UNCHANGED <<telemetryStores, storeVars>>
    /\ UNCHANGED <<pages, listening, connectionVars>>
    /\ UNCHANGED <<componentVars, pageVars, layout, toastVars>>

\* onDestroy of one instance: the listener of that instance is removed, if
\* it is registered already
DashboardDestroyed(page) ==
    /\ page \in alivePages
    /\ listening' = listening \ {page}
    /\ pages' = [pages EXCEPT ![page] = IF pages[page] = "loading"
                                        THEN "leftLoading" ELSE "gone"]
    /\ UNCHANGED <<lastTelemetry, dispatched, received, telemetryStores, connectionVars>>
    /\ UNCHANGED <<storeVars, componentVars, pageVars, layout, toastVars>>

NextDashboard ==
    \/ DashboardMounted
    \/ \E page \in 1..MaxPages : RestLoaded(page)
    \/ \E page \in 1..MaxPages : RestFailed(page)
    \/ TelemetryMessage
    \/ \E page \in 1..MaxPages : DashboardDestroyed(page)

SpecDashboard == InitDashboard /\ [][NextDashboard]_vars

(***************************************************************************)
(* websocket.store.ts and the connection handling of websocket.service.ts. *)
(* A Socket returned by io() is "connecting" until its first 'connect',    *)
(* "connected" after it, "reconnecting" after a 'disconnect' it did not    *)
(* ask for (reconnection: true), and "closed" after socket.disconnect().   *)
(* Every socket the service creates has the handlers of                    *)
(* setupEventHandlers registered for as long as it exists.                 *)
(***************************************************************************)
\* how many connect_error events in a row are followed: one more than the
\* service's maxReconnectAttempts (5), so that the count passes it
MaxConnectErrors == 6

\* setStatus keeping the error of the previous state
setStatus_keepsError(newStatus) ==
    /\ status' = newStatus
    /\ UNCHANGED error

\* websocketStore.setStatus(status)
setStatus(newStatus) ==
    /\ status' = newStatus
    /\ error' = NULL

\* websocketStore.setError(error); the stored string is kept in a record
setError(message) ==
    /\ status' = "error"
    /\ error' = [message |-> message]

\* websocketStore.reset()
reset ==
    /\ status' = "disconnected"
    /\ lastTelemetry' = NULL
    /\ error' = NULL

\* the sockets the service has created and not closed: they hold the
\* service's handlers and connect or reconnect on their own
liveSockets == { s \in 1..MaxSockets : sockets[s] \in {"connecting", "connected", "reconnecting"} }

\* the number io() gives the next socket
nextSocket == Cardinality({ s \in 1..MaxSockets : sockets[s] # "none" }) + 1

\* connect()
connect ==
    IF socket # 0 /\ sockets[socket] = "connected"
    THEN UNCHANGED <<status, error, socket, sockets>>
    ELSE /\ setStatus("connecting")
         /\ socket' = nextSocket
         /\ sockets' = [sockets EXCEPT ![nextSocket] = "connecting"]

\* disconnect(): a connected socket emits 'disconnect' while it is closed,
\* whose handler sets the status the service sets again afterwards
disconnect ==
    IF socket # 0
    THEN /\ sockets' = [sockets EXCEPT ![socket] = "closed"]
         /\ inbox' = [inbox EXCEPT ![socket] = <<>>]
         /\ socket' = 0
         /\ setStatus("disconnected")
    ELSE UNCHANGED <<status, error, socket, sockets, inbox>>

\* error.message || 'Connection failed'
errorMessage(message) == IF message = "" THEN "Connection failed" ELSE message

\* the messages of the errors a connection attempt fails with
ConnectErrors == {"timeout", ""}

\* the telemetry messages the server sends while the connection is followed
ConnectionPayloads ==
    { [data |-> [field \in {} |-> 0],
       full |-> [id |-> "a", recordedAt |-> isoString("T1"), temperature |-> 34,
                 dailyHoneyGainG |-> 12]],
      [data |-> [temperature |-> 36]] }

InitConnection == InitSocket

Connect ==
    /\ nextSocket <= MaxSockets
    /\ connect
    /\ UNCHANGED <<reconnectAttempts, inbox, broadcasts>>
    /\ UNCHANGED <<lastTelemetry, dispatched, received, dashboardVars>>
    /\ UNCHANGED <<storeVars, componentVars, pageVars, layout, toastVars>>

Disconnect ==
    /\ disconnect
    /\ UNCHANGED <<reconnectAttempts, broadcasts>>
    /\ UNCHANGED <<lastTelemetry, dispatched, received, dashboardVars>>
    /\ UNCHANGED <<storeVars, componentVars, pageVars, layout, toastVars>>

\* socket.on('connect', ...)
OnConnect(s) ==
    /\ sockets[s] \in {"connecting", "reconnecting"}
    /\ sockets' = [sockets EXCEPT ![s] = "connected"]
    /\ setStatus("connected")
    /\ reconnectAttempts' = 0
    /\ UNCHANGED <<socket, inbox, broadcasts>>
    /\ UNCHANGED <<lastTelemetry, dispatched, received, dashboardVars>>
    /\ UNCHANGED <<storeVars, componentVars, pageVars, layout, toastVars>>

\* socket.on('disconnect', ...): the connection was lost; the socket
\* reconnects on its own
OnDisconnect(s) ==
    /\ sockets[s] = "connected"
    /\ sockets' = [sockets EXCEPT ![s] = "reconnecting"]
    /\ inbox' = [inbox EXCEPT ![s] = <<>>]
    /\ setStatus("disconnected")
    /\ UNCHANGED <<socket, reconnectAttempts, broadcasts>>
    /\ UNCHANGED <<lastTelemetry, dispatched, received, dashboardVars>>
    /\ UNCHANGED <<storeVars, componentVars, pageVars, layout, toastVars>>

\* socket.on('connect_error', ...): the error is stored and the attempt
\* counted whatever the count is; reaching maxReconnectAttempts only logs
OnConnectError(s) ==
    /\ sockets[s] \in {"connecting", "reconnecting"}
    /\ reconnectAttempts < MaxConnectErrors
    /\ \E message \in ConnectErrors : setError(errorMessage(message))
    /\ reconnectAttempts' = reconnectAttempts + 1
    /\ UNCHANGED <<socket, sockets, inbox, broadcasts>>
    /\ UNCHANGED <<lastTelemetry, dispatched, received, dashboardVars>>
    /\ UNCHANGED <<storeVars, componentVars, pageVars, layout, toastVars>>

\* the server emits 'telemetry': the message reaches every connected socket
ServerTelemetry ==
    /\ broadcasts < MaxBroadcasts
    /\ \E s \in 1..MaxSockets : sockets[s] = "connected"
    /\ \E payload \in ConnectionPayloads :
          inbox' = [s \in 1..MaxSockets |->
                       IF sockets[s] = "connected" THEN Append(inbox[s], payload)
                       ELSE inbox[s]]
    /\ broadcasts' = broadcasts + 1
    /\ UNCHANGED <<status, error, socket, sockets, reconnectAttempts>>
    /\ UNCHANGED <<lastTelemetry, dispatched, received, dashboardVars>>
    /\ UNCHANGED <<storeVars, componentVars, pageVars, layout, toastVars>>

\* socket.on('telemetry', ...) of one socket
OnTelemetry(s) ==
    /\ sockets[s] = "connected" /\ inbox[s] # <<>>
    /\ handleTelemetryUpdate(Head(inbox[s]))
    /\ inbox' = [inbox EXCEPT ![s] = Tail(inbox[s])]
    /\ UNCHANGED <<status, error, socket, sockets, reconnectAttempts, broadcasts>>
    /\ UNCHANGED dashboardVars
    /\ UNCHANGED <<storeVars, componentVars, pageVars, layout, toastVars>>

Reset ==
    /\ reset
    /\ UNCHANGED <<socket, sockets, reconnectAttempts, inbox, broadcasts>>
    /\ UNCHANGED <<dispatched, received, dashboardVars>>
    /\ UNCHANGED <<storeVars, componentVars, pageVars, layout, toastVars>>

SocketEvent ==
    \E s \in 1..MaxSockets :
        OnConnect(s) \/ OnDisconnect(s) \/ OnConnectError(s) \/ OnTelemetry(s)

NextConnection == Connect \/ Disconnect \/ SocketEvent \/ ServerTelemetry \/ Reset

SpecConnection == InitConnection /\ [][NextConnection]_vars

(***************************************************************************)
(* telemetry-transform.ts: the fixed-centre gauge.  The pointer is put at  *)
(* the centre of one of three or five equal segments.                      *)
(***************************************************************************)
\* number of equal steps the display range is cut into for the thresholds
\* and values handed to transformTelemetryToMetrics
GaugeN == 2

calculateSimplePercent(value, thresholds, type, displayRange) ==
    LET leftCenter == [num |-> 1667, den |-> 100]
        topCenter == Rat(50)
        rightCenter == [num |-> 8333, den |-> 100]
    IN  IF type = "ascending"
        THEN IF value <= thresholds.normalMax THEN leftCenter
             ELSE IF value <= thresholds.warningMax THEN topCenter
             ELSE rightCenter
        ELSE IF value < thresholds.warningMin THEN leftCenter
             ELSE IF value < thresholds.normalMin THEN topCenter
             ELSE rightCenter

calculateRangeBasedPercent(value, thresholds, displayRange) ==
    IF value < thresholds.criticalMin THEN Rat(10)
    ELSE IF value < thresholds.normalMin THEN Rat(30)
    ELSE IF value <= thresholds.normalMax THEN Rat(50)
    ELSE IF value <= thresholds.criticalMax THEN Rat(70)
    ELSE Rat(90)

generateSimpleSegments(valueRange, thresholds, type) ==
    LET segmentSize == [num |-> 100, den |-> 3]
        twice == [num |-> 200, den |-> 3]
    IN  IF type = "inverted"
        THEN << [start |-> Rat(0), stop |-> segmentSize, color |-> "#ef4444", label |-> "Critical"],
                [start |-> segmentSize, stop |-> twice, color |-> "#eab308", label |-> "Warning"],
                [start |-> twice, stop |-> Rat(100), color |-> "#22c55e", label |-> "Normal"] >>
        ELSE << [start |-> Rat(0), stop |-> segmentSize, color |-> "#22c55e", label |-> "Normal"],
                [start |-> segmentSize, stop |-> twice, color |-> "#eab308", label |-> "Warning"],
                [start |-> twice, stop |-> Rat(100), color |-> "#ef4444", label |-> "Critical"] >>

generateRangeBasedSegments(valueRange, thresholds) ==
    << [start |-> Rat(0), stop |-> Rat(20), color |-> "#ef4444", label |-> "Critical"],
       [start |-> Rat(20), stop |-> Rat(40), color |-> "#eab308", label |-> "Warning"],
       [start |-> Rat(40), stop |-> Rat(60), color |-> "#22c55e", label |-> "Normal"],
       [start |-> Rat(60), stop |-> Rat(80), color |-> "#eab308", label |-> "Warning"],
       [start |-> Rat(80), stop |-> Rat(100), color |-> "#ef4444", label |-> "Critical"] >>

\* the display range and topology transformTelemetryToMetrics uses per metric
TRANSFORM_GAUGES ==
    [ temp     |-> [min |-> 18, max |-> 40, type |-> "normal"],
      humidity |-> [min |-> 0, max |-> 100, type |-> "normal"],
      weight   |-> [min |-> 20, max |-> 60, type |-> "normal"],
      activity |-> [min |-> 0, max |-> 100, type |-> "normal"],
      co2      |-> [min |-> 400, max |-> 4000, type |-> "ascending"],
      honey    |-> [min |-> -500, max |-> 800, type |-> "inverted"],
      swarm    |-> [min |-> 0, max |-> 100, type |-> "ascending"],
      battery  |-> [min |-> 0, max |-> 100, type |-> "inverted"] ]

\* the fixed thresholds of the weight gauge
WEIGHT_GAUGE ==
    [normalMin |-> 28, normalMax |-> 52, warningMin |-> 24, warningMax |-> 56,
     criticalMin |-> 24, criticalMax |-> 56]

\* the entry of metric m in the list transformTelemetryToMetrics returns
\* (th holds the thresholds of metric m)
transformTelemetryToMetrics(m, value, th) ==
    LET gauge == TRANSFORM_GAUGES[m]
        valueRange == [min |-> gauge.min, max |-> gauge.max]
    IN  IF m = "weight"
        THEN [ id |-> m,
               percent |-> calculateRangeBasedPercent(value, WEIGHT_GAUGE, valueRange),
               severity |-> "safe",
               segments |-> generateRangeBasedSegments(valueRange, WEIGHT_GAUGE) ]
        ELSE IF gauge.type = "normal"
        THEN [ id |-> m,
               percent |-> calculateRangeBasedPercent(value, th, valueRange),
               severity |-> calculateSeverityTransform(value, th.normalMin, th.normalMax,
                                th.warningMin, th.warningMax, th.criticalMin,
                                th.criticalMax, "normal"),
               segments |-> generateRangeBasedSegments(valueRange, th) ]
        ELSE [ id |-> m,
               percent |-> calculateSimplePercent(value, th, gauge.type, valueRange),
               severity |-> calculateSeverityTransform(value, th.normalMin, th.normalMax,
                                th.warningMin, th.warningMax, th.criticalMin,
                                th.criticalMax, gauge.type),
               segments |-> generateSimpleSegments(valueRange, th, gauge.type) ]

GaugeMetricIds == DOMAIN TRANSFORM_GAUGES

GaugeStep(m) == (cfg[m].displayMax - cfg[m].displayMin) \div GaugeN

GaugePoints(m) == { cfg[m].displayMin + k * GaugeStep(m) : k \in 0..GaugeN }

\* telemetry values: the grid, two units on either side of each grid point,
\* and one step outside the display range on either side
GaugeValues(m) ==
    GaugePoints(m) \cup { point - 2 : point \in GaugePoints(m) }
        \cup { point + 2 : point \in GaugePoints(m) }
        \cup { cfg[m].displayMin - GaugeStep(m), cfg[m].displayMax + GaugeStep(m) }

\* the threshold sets that come out of the configuration component as the
\* configurations page mounts it (min and max of transformThresholdsToMetrics):
\* a validated normal range with the auto-adjusted warning and critical
\* bounds; a metric with manual thresholds returns before the adjustment,
\* so none
AutoAdjustedSets(m) ==
    IF cfg[m].allowManualThresholds \/ m \notin DOMAIN transformThresholdsToMetrics THEN {}
    ELSE
    LET lo == transformThresholdsToMetrics[m].min
        hi == transformThresholdsToMetrics[m].max
        points == GaugePoints(m) \cup {lo, hi}
        normals == { pair \in points \X points :
                         validateNormalRange(m, pair[1], pair[2], lo, hi).valid }
        adjusted(pair) ==
            IF cfg[m].type = "ascending" THEN autoAdjustAscendingThresholds(m, pair[2], hi)
            ELSE IF cfg[m].type = "inverted" THEN autoAdjustInvertedThresholds(m, pair[1], lo)
            ELSE autoAdjustRangeThresholds(m, pair[1], pair[2], lo, hi)
    IN  { [normalMin |-> pair[1], normalMax |-> pair[2],
           warningMin |-> adjusted(pair).warningMin,
           warningMax |-> adjusted(pair).warningMax,
           criticalMin |-> adjusted(pair).criticalMin,
           criticalMax |-> adjusted(pair).criticalMax] : pair \in normals }

\* the threshold sets the server may deliver: any bounds on the grid, and
\* the auto-adjusted sets
GaugeThresholds(m) ==
    [ normalMin : GaugePoints(m), normalMax : GaugePoints(m),
      warningMin : GaugePoints(m), warningMax : GaugePoints(m),
      criticalMin : GaugePoints(m), criticalMax : GaugePoints(m) ]
        \cup AutoAdjustedSets(m)

\* one telemetry value and the thresholds of its metric, before either view
\* of the dashboard has been computed
GaugeInit ==
    \E m \in GaugeMetricIds :
        \E value \in GaugeValues(m), th \in GaugeThresholds(m) :
            layout = [metric |-> m, value |-> value, thresholds |-> th, result |-> NULL]

InitGauge == StoreIdle /\ ComponentIdle /\ PageIdle /\ GaugeInit /\ ToastIdle /\ SocketIdle

\* the metric as transformTelemetryToMetrics returns it and as its derived
\* store holds it
TransformTelemetry ==
    /\ layout # NULL
    /\ layout' = [layout EXCEPT !.result =
                      [transform |-> transformTelemetryToMetrics(layout.metric, layout.value,
                                                                 layout.thresholds),
                       store |-> derivedMetric(layout.metric, layout.value,
                                               layout.thresholds,
                                               telemetryStores.recordedAt)]]
    /\ UNCHANGED <<storeVars, componentVars, pageVars, toastVars, socketVars>>

NextGauge == TransformTelemetry

SpecGauge == InitGauge /\ [][NextGauge]_vars

(***************************************************************************)
(* Properties of the classifier and of the gauge layout (Spec).            *)
(***************************************************************************)
\* the derived store has been evaluated on thresholds that are present
Derived == metricData # NULL

storeType == cfg[metric].type

\* the stored thresholds pass validateThresholds for the gauge's display range
ThresholdsValid ==
    validateThresholds(metric,
        thresholdsStore.normalMin, thresholdsStore.normalMax,
        thresholdsStore.warningMin, thresholdsStore.warningMax,
        thresholdsStore.criticalMin, thresholdsStore.criticalMax,
        cfg[metric].displayMin, cfg[metric].displayMax).valid

\* the three classifiers applied to the stored value and thresholds
severityTransform(type) ==
    calculateSeverityTransform(rawValue,
        thresholdsStore.normalMin, thresholdsStore.normalMax,
        thresholdsStore.warningMin, thresholdsStore.warningMax,
        thresholdsStore.criticalMin, thresholdsStore.criticalMax,
        IF type = "range" THEN "normal" ELSE type)

severityCentral(type) ==
    calculateSeverityCentral(rawValue,
        thresholdsStore.normalMin, thresholdsStore.normalMax,
        thresholdsStore.warningMin, thresholdsStore.warningMax, type)

\* C1: for every metric, every threshold set that passes validateThresholds
\* and every value, the severity of the derived store equals the severity of
\* the gauge segment that contains the percent position (gauge card lookup).
C1_ClassifierSegmentAgreement ==
    (Derived /\ ThresholdsValid) =>
        metricData.severity =
            currentStatus(currentSegment(metricData.percent, metricData.segments))

\* the severity the range rule of the design assigns: critical outside the
\* critical envelope, safe inside the normal band, warning otherwise
rangeEnvelopeSeverity ==
    IF rawValue < thresholdsStore.criticalMin \/ rawValue > thresholdsStore.criticalMax
    THEN "critical"
    ELSE IF thresholdsStore.normalMin <= rawValue /\ rawValue <= thresholdsStore.normalMax
    THEN "safe"
    ELSE "warning"

\* C2: for range metrics every calculateSeverity implementation (store,
\* telemetry-transform.ts, centralized duplicate) returns critical outside
\* [criticalMin, criticalMax], else safe inside the normal band, else warning.
C2_RangeEnvelopeEverywhere ==
    (Derived /\ storeType = "range") =>
        /\ metricData.severity = rangeEnvelopeSeverity
        /\ severityTransform("range") = rangeEnvelopeSeverity
        /\ severityCentral("range") = rangeEnvelopeSeverity

ascendingSeverity ==
    IF rawValue <= thresholdsStore.normalMax THEN "safe"
    ELSE IF rawValue <= thresholdsStore.warningMax THEN "warning"
    ELSE "critical"

\* C3: for ascending metrics the severity is safe when value <= normalMax,
\* warning when normalMax < value <= warningMax and critical above warningMax,
\* whatever normalMin, warningMin and the critical bounds are.
C3_AscendingClassification ==
    (Derived /\ storeType = "ascending") =>
        /\ metricData.severity = ascendingSeverity
        /\ severityTransform("ascending") = ascendingSeverity
        /\ severityCentral("ascending") = ascendingSeverity

\* an ascending metric is classified warning although the value lies below
\* warningMin and above criticalMax
C3_Witness ==
    /\ Derived /\ storeType = "ascending"
    /\ metricData.severity = "warning"
    /\ rawValue < thresholdsStore.warningMin
    /\ rawValue > thresholdsStore.criticalMax

invertedSeverity ==
    IF rawValue < thresholdsStore.warningMin THEN "critical"
    ELSE IF rawValue < thresholdsStore.normalMin THEN "warning"
    ELSE "safe"

\* C4: for inverted metrics the severity is critical when value < warningMin,
\* warning when warningMin <= value < normalMin and safe from normalMin on,
\* whatever normalMax, warningMax and the critical bounds are.
C4_InvertedClassification ==
    (Derived /\ storeType = "inverted") =>
        /\ metricData.severity = invertedSeverity
        /\ severityTransform("inverted") = invertedSeverity
        /\ severityCentral("inverted") = invertedSeverity

\* an inverted metric is classified warning at value = warningMin although
\* the value lies above warningMax and normalMax
C4_Witness ==
    /\ Derived /\ storeType = "inverted"
    /\ metricData.severity = "warning"
    /\ rawValue = thresholdsStore.warningMin
    /\ rawValue > thresholdsStore.warningMax
    /\ rawValue > thresholdsStore.normalMax

\* the severity the tie rule assigns to the stored value when it lies on a
\* boundary shared by two zones ("none" when it lies on no such boundary)
tieSeverity ==
    LET th == thresholdsStore
    IN  IF storeType = "ascending" THEN
            IF rawValue = th.normalMax THEN "safe"
            ELSE IF rawValue = th.warningMax /\ th.normalMax < th.warningMax THEN "warning"
            ELSE "none"
        ELSE IF storeType = "inverted" THEN
            IF rawValue = th.normalMin THEN "safe"
            ELSE IF rawValue = th.warningMin /\ th.warningMin < th.normalMin THEN "warning"
            ELSE "none"
        ELSE
            IF rawValue = th.normalMin \/ rawValue = th.normalMax THEN "safe"
            ELSE IF rawValue = th.criticalMin /\ th.criticalMin < th.normalMin THEN "warning"
            ELSE IF rawValue = th.criticalMax /\ th.normalMax < th.criticalMax THEN "warning"
            ELSE "none"

\* C5: for every valid threshold set a value on a boundary shared by two
\* zones gets the lower severity of the two, in every implementation.
C5_BoundaryTies ==
    (Derived /\ ThresholdsValid /\ tieSeverity # "none") =>
        /\ metricData.severity = tieSeverity
        /\ severityTransform(storeType) = tieSeverity
        /\ severityCentral(storeType) = tieSeverity

segmentCount == IF storeType = "range" THEN 5 ELSE 3

\* C6: for every threshold set accepted by validateThresholds the segment
\* list has 3 (ascending, inverted) or 5 (range) segments, starts at 0, ends
\* at 100, chains stop to start, and has 0 <= start <= stop <= 100 throughout.
C6_SegmentCoverage ==
    (Derived /\ ThresholdsValid) =>
        LET segs == metricData.segments
        IN  /\ Len(segs) = segmentCount
            /\ RatEq(segs[1].start, Rat(0))
            /\ RatEq(segs[Len(segs)].stop, Rat(100))
            /\ \A i \in 1..(Len(segs) - 1) : RatEq(segs[i].stop, segs[i + 1].start)
            /\ \A i \in 1..Len(segs) :
                    /\ RatLe(Rat(0), segs[i].start)
                    /\ RatLe(segs[i].start, segs[i].stop)
                    /\ RatLe(segs[i].stop, Rat(100))

(***************************************************************************)
(* Properties of the auto-adjustment (SpecConfig).                         *)
(***************************************************************************)
\* the step is a step of the component (the page's own state is untouched):
\* an accepted edit of the normal range in the centralized version, or any
\* edit of the normal range in the local version
AdjustedStep ==
    /\ UNCHANGED <<pageVars, toastVars>>
    /\ variant = "local" \/ validationErrors' = <<>>

\* C7: for every auto-adjusted metric, display range and normal range that
\* validateNormalRange accepts, the normal range together with the bounds
\* returned by the topology's autoAdjust*Thresholds function passes
\* validateThresholds with zero errors.
C7_AutoAdjustRoundTrip ==
    [][ (variant = "centralized" /\ isAutoAdjusted(id) /\ AdjustedStep) =>
            /\ validateNormalRange(id, normalRange'[1], normalRange'[2], min, max).valid
            /\ Len(validateThresholds(id, bound'.normalMin, bound'.normalMax,
                                      bound'.warningMin, bound'.warningMax,
                                      bound'.criticalMin, bound'.criticalMax,
                                      min, max).errors) = 0
            /\ bound' = boundProps(normalRange', warningRange', criticalRange') ]_vars

\* an accepted edit of an ascending metric whose warning zone was clamped to
\* the display maximum
C7_Witness ==
    /\ variant = "centralized" /\ cfg[id].type = "ascending"
    /\ validationErrors = <<>>
    /\ normalRange[2] < max
    /\ warningRange = <<normalRange[2], max>>
    /\ criticalRange = <<max, max>>
    /\ bound = boundProps(normalRange, warningRange, criticalRange)

\* the warning span the design assigns to an ascending or inverted metric
claimedWarningSpan(metricId) ==
    CASE metricId = "co2" -> 500
      [] metricId = "swarm" -> 10
      [] metricId = "battery" -> 40
      [] metricId = "honey" -> 250

\* C8: for every ascending metric the derived bounds are warningMin =
\* normalMax, warningMax = min(displayMax, normalMax + warningSpan),
\* criticalMin = warningMax, criticalMax = displayMax (span 500 for co2, 10
\* for swarm), in the centralized function and in the local variant.
C8_AscendingAutoAdjust ==
    [][ (cfg[id].type = "ascending" /\ AdjustedStep) =>
            LET normalMax == normalRange'[2]
                warningMax == MathMin(max, normalMax + claimedWarningSpan(id))
            IN  /\ warningRange' = <<normalMax, warningMax>>
                /\ criticalRange' = <<warningMax, max>>
                /\ autoAdjustAscendingThresholds("co2", 1800, 4000) =
                       [warningMin |-> 1800, warningMax |-> 2300,
                        criticalMin |-> 2300, criticalMax |-> 4000]
                /\ autoAdjustAscendingMetricThresholds("co2", "ppm", 400, 4000, 400, 1800,
                       [warningRange |-> <<0, 0>>, criticalRange |-> <<0, 0>>]) =
                       [warningRange |-> <<1800, 2300>>, criticalRange |-> <<2300, 4000>>] ]_vars

\* the local version has adjusted co2 to a warning zone of the full span
\* after both thumbs of the normal slider were moved to the same position
C8_Witness ==
    /\ variant = "local" /\ id = "co2"
    /\ normalRange[1] = normalRange[2]
    /\ warningRange = <<normalRange[2], normalRange[2] + 500>>
    /\ criticalRange = <<normalRange[2] + 500, max>>
    /\ normalRange[2] + 500 < max

\* C9: for every inverted metric the derived bounds are warningMax =
\* normalMin, warningMin = max(displayMin, normalMin - warningSpan),
\* criticalMax = warningMin, criticalMin = displayMin (span 40 for battery,
\* 250 for honey), in the centralized function and in the local variant.
C9_InvertedAutoAdjust ==
    [][ (cfg[id].type = "inverted" /\ AdjustedStep) =>
            LET normalMin == normalRange'[1]
                warningMin == MathMax(min, normalMin - claimedWarningSpan(id))
            IN  /\ warningRange' = <<warningMin, normalMin>>
                /\ criticalRange' = <<min, warningMin>> ]_vars

\* the centralized version has adjusted honey to a warning zone of the full
\* span below the normal minimum
C9_Witness ==
    /\ variant = "centralized" /\ id = "honey"
    /\ validationErrors = <<>>
    /\ warningRange = <<normalRange[1] - 250, normalRange[1]>>
    /\ criticalRange = <<min, normalRange[1] - 250>>
    /\ min < normalRange[1] - 250

\* the extension the design assigns to a range metric
claimedExtension(metricId) == IF metricId = "temp" THEN 5 ELSE 10

\* C10: for every range metric the derived bounds are warningMin =
\* max(displayMin, normalMin - extension), warningMax = min(displayMax,
\* normalMax + extension), criticalMin = warningMin, criticalMax = warningMax
\* (extension 5 for temp, 10 for humidity and activity), in the centralized
\* function and in the local variant.
C10_RangeAutoAdjust ==
    [][ (cfg[id].type = "range" /\ AdjustedStep) =>
            LET warningMin == MathMax(min, normalRange'[1] - claimedExtension(id))
                warningMax == MathMin(max, normalRange'[2] + claimedExtension(id))
            IN  /\ warningRange' = <<warningMin, warningMax>>
                /\ criticalRange' = <<warningMin, warningMax>> ]_vars

(***************************************************************************)
(* Properties of the validation of edited normal ranges (SpecConfig).      *)
(***************************************************************************)
\* the narrowest normal range the design accepts for a metric
claimedMinSpan(metricId) ==
    IF cfg[metricId].unit = "%" \/ cfg[metricId].unit = "" THEN 5 ELSE 1

\* the normal ranges the design accepts
claimedNormalRangeOk(metricId, normalMin, normalMax, displayMin, displayMax) ==
    /\ normalMin < normalMax
    /\ displayMin <= normalMin
    /\ normalMax <= displayMax
    /\ normalMax - normalMin >= claimedMinSpan(metricId)

\* C11: validateNormalRange returns valid exactly when normalMin < normalMax,
\* the range lies within the display range and is at least minSpan wide (5
\* for unit '%' or '', else 1), and the page's validateMetrics accepts
\* exactly the same normal ranges.
C11_NormalRangeValidation ==
    (variant # "none") =>
        LET ok == claimedNormalRangeOk(id, bound.normalMin, bound.normalMax, min, max)
        IN  /\ validateNormalRange(id, bound.normalMin, bound.normalMax, min, max).valid = ok
            /\ (Len(validateMetrics(id, bound)) = 0) = ok
            /\ \A pair \in SliderPairs(unit, min, max) :
                   validateNormalRange(id, pair[1], pair[2], min, max).valid
                       = claimedNormalRangeOk(id, pair[1], pair[2], min, max)

\* the step is an edit of the normal range that the centralized version of
\* the component rejected
RejectedStep ==
    /\ UNCHANGED <<pageVars, toastVars>>
    /\ variant = "centralized"
    /\ validationErrors' # <<>>

\* C12: a rejected edit of the normal range carries at least one error, all
\* tagged field = 'normal', and handleNormalRangeChange leaves the warning
\* range, the critical range and the six bound thresholds as they were.
C12_RejectedEditsReported ==
    [][ RejectedStep =>
            /\ \A i \in 1..Len(validationErrors') : validationErrors'[i].field = "normal"
            /\ \A pair \in SliderPairs(unit, min, max) :
                   LET result == validateNormalRange(id, pair[1], pair[2], min, max)
                   IN  ~result.valid =>
                           /\ Len(result.errors) >= 1
                           /\ \A i \in 1..Len(result.errors) : result.errors[i].field = "normal"
            /\ warningRange' = warningRange
            /\ criticalRange' = criticalRange
            /\ bound' = bound ]_vars

\* an edit was rejected with two errors while the thresholds out of the
\* last accepted edit are still bound
C12_Witness ==
    /\ variant = "centralized"
    /\ Len(validationErrors) >= 2
    /\ bound.warningMin # min \/ bound.warningMax # max
    /\ bound.criticalMin # min \/ bound.criticalMax # max

(***************************************************************************)
(* Properties of the display position (SpecLayout) and of the ordering of  *)
(* severities (Spec).                                                      *)
(***************************************************************************)
LayoutDone == layout # NULL /\ layout.result # NULL

\* 100 * (clamp(value, min, max) - min) / (max - min)
claimedPercent(value, lo, hi) ==
    LET clamp == IF value < lo THEN lo ELSE IF value > hi THEN hi ELSE value
    IN  [num |-> 100 * (clamp - lo), den |-> hi - lo]

\* C13: for every value and display range with min < max, calculatePercent
\* (store and telemetry-transform.ts) returns a number in [0,100] equal to
\* 100 * (clamp(value) - min) / (max - min); it is 0 for value <= min, 100
\* for value >= max, and non-decreasing in value.
C13_DisplayPosition ==
    (LayoutDone /\ layout.displayMin < layout.displayMax) =>
        LET lo == layout.displayMin
            hi == layout.displayMax
            percent == layout.result.percent
        IN  /\ percent = layout.result.percentTransform
            /\ percent.den > 0
            /\ RatLe(Rat(0), percent) /\ RatLe(percent, Rat(100))
            /\ RatEq(percent, claimedPercent(layout.value, lo, hi))
            /\ layout.value <= lo => RatEq(percent, Rat(0))
            /\ layout.value >= hi => RatEq(percent, Rat(100))
            /\ \A other \in LayoutValues :
                   /\ layout.value <= other => RatLe(percent, calculatePercent(other, lo, hi))
                   /\ other <= layout.value => RatLe(calculatePercent(other, lo, hi), percent)

\* a value above the display maximum was placed at 100
C13_Witness ==
    /\ LayoutDone /\ layout.displayMin < layout.displayMax
    /\ layout.value > layout.displayMax
    /\ RatEq(layout.result.percent, Rat(100))

severityRank(severity) ==
    CASE severity = "safe" -> 0 [] severity = "warning" -> 1 [] severity = "critical" -> 2

\* the store's classification of another value under the stored thresholds
severityOf(value) ==
    calculateSeverity(value, thresholdsStore.normalMin, thresholdsStore.normalMax,
                      thresholdsStore.warningMin, thresholdsStore.warningMax, storeType)

\* C14: for ascending metrics and any threshold set a larger value never gets
\* a lower severity (safe < warning < critical); for inverted metrics a
\* larger value never gets a higher severity.
C14_Monotonicity ==
    (Derived /\ storeType \in {"ascending", "inverted"}) =>
        \A other \in TelemetryValues(metric) :
            LET mine == severityRank(metricData.severity)
                theirs == severityRank(severityOf(other))
            IN  IF storeType = "ascending"
                THEN /\ rawValue < other => mine <= theirs
                     /\ other < rawValue => theirs <= mine
                ELSE /\ rawValue < other => mine >= theirs
                     /\ other < rawValue => theirs >= mine

\* an inverted metric is critical at the stored value and safe at a larger one
C14_Witness ==
    /\ Derived /\ storeType = "inverted"
    /\ metricData.severity = "critical"
    /\ \E other \in TelemetryValues(metric) :
           rawValue < other /\ severityOf(other) = "safe"

(***************************************************************************)
(* Properties of the stores under updates (SpecStore).                     *)
(***************************************************************************)
\* the store holds the raw value and the thresholds it held when the
\* subscriber read the kept output
SameInputs ==
    /\ snapshot # NULL
    /\ metricData # NULL
    /\ snapshot.rawValue = rawValue
    /\ snapshot.thresholds = thresholdsStore

\* C16 as stated: two histories of updateTelemetry and setThresholds calls
\* ending in the same raw value and thresholds yield identical metric
\* output.
C16_IdenticalOutput == SameInputs => metricData = snapshot.output

\* C16: after any sequence of updateTelemetry and setThresholds calls the
\* derived metric's severity, percent and segments are a function of the
\* current raw value and thresholds only; two histories ending in the same
\* value and thresholds yield identical output, except the middle scale
\* label of the activity metric, which follows the hour of the current
\* recordedAt: with the same day/night phase as well the output is
\* identical.
C16_NoHiddenStateDrift ==
    SameInputs =>
        /\ metricData.severity = snapshot.output.severity
        /\ metricData.percent = snapshot.output.percent
        /\ metricData.segments = snapshot.output.segments
        /\ (\/ metric # "activity"
            \/ isDay(telemetryStores.recordedAt) = isDay(snapshot.recordedAt))
               => metricData = snapshot.output

\* the activity output was read by day; value and thresholds were then
\* changed and set back while recordedAt moved into the night: severity,
\* percent and segments are as read, the output is not
C16_Witness ==
    /\ metric = "activity" /\ SameInputs
    /\ rawValue # 0
    /\ isDay(snapshot.recordedAt) /\ ~isDay(telemetryStores.recordedAt)
    /\ metricData.severity = "critical" /\ snapshot.output.severity = "critical"
    /\ metricData.percent = snapshot.output.percent
    /\ metricData.segments = snapshot.output.segments
    /\ metricData # snapshot.output

(***************************************************************************)
(* Properties of the toast store, its provider and the alert handler       *)
(* (SpecToast, SpecToastLive).                                             *)
(***************************************************************************)
\* a step in which toastStore.success / error / warning / info was called
ConvenienceStep == called' # called /\ called'.method \in DOMAIN ConvenienceVariant

\* C17: after toastStore.success, error, warning or info is called with a
\* description, the exported store's list has one more toast, the new one
\* carrying that description and the variant success, destructive, warning
\* or info respectively, and the mounted provider sees the same list.
C17_ConvenienceToastsShown ==
    [][ConvenienceStep =>
           /\ Len(toasts') = Len(toasts) + 1
           /\ toasts'[Len(toasts')].id = called'.id
           /\ toasts'[Len(toasts')].description = called'.description
           /\ toasts'[Len(toasts')].variant = ConvenienceVariant[called'.method]
           /\ (mounted => providerToasts' = toasts')]_vars

\* the toasts of the exported store that are due for auto-dismissal
timedIds == { toasts[i].id : i \in { j \in 1..Len(toasts) : toasts[j].duration > 0 } }

\* the toasts of the exported store that were added with duration 0
pinnedIds == { toasts[i].id : i \in { j \in 1..Len(toasts) : toasts[j].duration = 0 } }

\* a pending timer belongs to a toast that is in the store with duration > 0,
\* and the mounted provider has a timer for each such toast
TimersMatchToasts ==
    /\ dismissTimers \subseteq timedIds
    /\ dismissTimers \cap pinnedIds = {}
    /\ (mounted => dismissTimers = timedIds)

\* a timer that fires removes its own toast and nothing else; a toast with
\* duration 0 leaves the store only through dismiss or clear; an early
\* dismiss leaves no timer for the dismissed toast
TimerStep ==
    /\ \A toastId \in 1..MaxToasts :
           TimerFire(toastId) => /\ toastId \in timedIds
                                 /\ toasts' = withoutToast(toasts, toastId)
    /\ (pinnedIds \ toastIds(toasts') # {} => called' # called /\ called'.method \in {"dismiss", "clear"})
    /\ \A toastId \in toastIds(toasts) \ toastIds(toasts') : toastId \notin dismissTimers'

\* C18: a toast with duration > 0 (5000 when none is given) that is in the
\* store while the provider is mounted is eventually out of the store (or
\* the provider is unmounted); no timer ever exists for a toast of duration
\* 0, which leaves the store only through dismiss(id) or clear(); a toast
\* that left the store has no timer, so a timer only removes its own toast.
C18_ToastAutoDismiss ==
    /\ []TimersMatchToasts
    /\ [][TimerStep]_vars
    /\ \A toastId \in 1..MaxToasts :
           (mounted /\ toastId \in timedIds) ~> (~mounted \/ toastId \notin toastIds(toasts))

\* a timer has fired and removed its toast while a duration-0 toast stays
\* in the store of the mounted provider, with no timer pending
C18_Witness ==
    /\ lastCall("timer") /\ called.id \notin toastIds(toasts)
    /\ mounted /\ pinnedIds # {} /\ dismissTimers = {}

\* a step that added a toast carrying a title: only showAlertToast does
AlertToastStep ==
    /\ called' # called /\ called'.method = "add"
    /\ "title" \in DOMAIN toasts'[Len(toasts')]

\* the alert type names a critical alert
criticalType(type) ==
    \/ includes(type, "TEMP_HIGH")
    \/ includes(type, "SWARM_RISK")
    \/ includes(type, "WEIGHT_DROP")

\* the step handled one alert payload: one event 'alert-update' carrying the
\* payload was dispatched and exactly one toast, the one expected for the
\* payload, was appended to the store
AlertHandled(expected(_, _)) ==
    /\ dispatched' # dispatched
    /\ dispatched'.event = "alert-update"
    /\ dispatched'.detail \in AlertPayloads
    /\ dispatched'.n = (IF dispatched = NULL THEN 0 ELSE dispatched.n) + 1
    /\ Len(toasts') = Len(toasts) + 1
    /\ SubSeq(toasts', 1, Len(toasts)) = toasts
    /\ toasts'[Len(toasts')].description = dispatched'.detail.alert.message
    /\ expected(dispatched'.detail, toasts'[Len(toasts')])

\* the toast of a payload as stated without the NORMALIZED / CLEARED types
statedAlertToast(payload, toast) ==
    IF payload.action = "cleared"
    THEN toast.variant = "success" /\ toast.playSound = FALSE
    ELSE /\ toast.playSound = TRUE
         /\ IF criticalType(payload.alert.type)
            THEN toast.variant = "destructive" /\ toast.duration = 8000
            ELSE toast.variant = "warning" /\ toast.duration = 6000

\* the toast of a payload: a triggered alert whose type contains CLEARED or
\* NORMALIZED is shown as a silent success toast
amendedAlertToast(payload, toast) ==
    IF \/ payload.action = "cleared"
       \/ includes(payload.alert.type, "CLEARED")
       \/ includes(payload.alert.type, "NORMALIZED")
    THEN toast.variant = "success" /\ toast.playSound = FALSE /\ toast.duration = 5000
    ELSE /\ toast.playSound = TRUE
         /\ IF criticalType(payload.alert.type)
            THEN toast.variant = "destructive" /\ toast.duration = 8000
            ELSE toast.variant = "warning" /\ toast.duration = 6000

\* C19 as stated: every cleared payload adds exactly one success toast
\* without sound, every triggered payload adds exactly one toast with sound
\* that is destructive (8000) for TEMP_HIGH, SWARM_RISK and WEIGHT_DROP and
\* warning (6000) for every other type, and 'alert-update' is dispatched.
C19_AlertToastsAsStated ==
    [][(AlertToastStep \/ dispatched' # dispatched) => AlertHandled(statedAlertToast)]_vars

\* C19: every alert payload adds exactly one toast and dispatches one
\* 'alert-update' event carrying it.  The toast is a success toast of 5000 ms
\* without sound when the action is cleared or the type contains CLEARED or
\* NORMALIZED; otherwise it plays the sound and is destructive (8000 ms) for
\* a type containing TEMP_HIGH, SWARM_RISK or WEIGHT_DROP and warning
\* (6000 ms) for every other type.
C19_AlertToasts ==
    [][(AlertToastStep \/ dispatched' # dispatched) => AlertHandled(amendedAlertToast)]_vars

\* two payloads were handled: a triggered TEMP_NORMALIZED alert shown as a
\* silent success toast, then a triggered warning alert with sound
C19_Witness ==
    /\ dispatched # NULL /\ dispatched.n = 2 /\ dispatched.detail.action = "triggered"
    /\ Len(toasts) = 2
    /\ toasts[1].title = "TEMP NORMALIZED"
    /\ toasts[1].variant = "success" /\ ~toasts[1].playSound
    /\ toasts[2].variant = "warning" /\ toasts[2].playSound /\ toasts[2].duration = 6000

(***************************************************************************)
(* Properties of the telemetry handler (SpecSocket).                       *)
(***************************************************************************)
\* a complete telemetry object as it is stored: recordedAt as a Date
claimedFull(full) ==
    [field \in DOMAIN full |->
        IF field = "recordedAt" THEN toDate(full[field]) ELSE full[field]]

\* the previous telemetry with the fields of data overridden, recordedAt as
\* a Date; with emptyKept an empty recordedAt of data overrides nothing
claimedMerge(previous, data, emptyKept) ==
    [field \in DOMAIN previous \cup DOMAIN data |->
        IF field \notin DOMAIN data THEN previous[field]
        ELSE IF field # "recordedAt" THEN data[field]
        ELSE IF emptyKept /\ data[field] = isoString("") THEN previous[field]
        ELSE toDate(data[field])]

\* the payloads applied in arrival order: a full one replaces, a delta with
\* fields is merged into what there is, anything else changes nothing
RECURSIVE replay(_, _)
replay(payloads, emptyKept) ==
    IF payloads = <<>> THEN NULL
    ELSE LET previous == replay(SubSeq(payloads, 1, Len(payloads) - 1), emptyKept)
             payload == payloads[Len(payloads)]
         IN  IF "full" \in DOMAIN payload THEN claimedFull(payload.full)
             ELSE IF DOMAIN payload.data = {} \/ previous = NULL THEN previous
             ELSE claimedMerge(previous, payload.data, emptyKept)

\* the step handled a payload as claimed
PayloadStep(emptyKept) ==
    received' # received =>
        LET payload == received'[Len(received')]
        IN  IF "full" \in DOMAIN payload
            THEN lastTelemetry' = claimedFull(payload.full)
            ELSE IF DOMAIN payload.data # {} /\ lastTelemetry # NULL
            THEN lastTelemetry' = claimedMerge(lastTelemetry, payload.data, emptyKept)
            ELSE emptyKept => lastTelemetry' = lastTelemetry

\* after a sequence of payloads that began with a full one
ReplayedFromFull(emptyKept) ==
    (received # <<>> /\ "full" \in DOMAIN received[1]) =>
        lastTelemetry = replay(received, emptyKept)

\* C20 as stated: a delta with fields, handled while lastTelemetry is not
\* null, gives the previous telemetry with exactly the fields of data
\* overridden; a full payload replaces it; after a sequence beginning with a
\* full payload lastTelemetry is that payload with all deltas applied in order.
C20_DeltaMergeAsStated ==
    [][PayloadStep(FALSE)]_vars /\ []ReplayedFromFull(FALSE)

\* C20: as stated, except that recordedAt is stored as a Date and a delta
\* whose recordedAt is the empty string keeps the previous recordedAt; a
\* delta without fields, or one arriving while lastTelemetry is null,
\* changes nothing.
C20_DeltaMerge ==
    [][PayloadStep(TRUE)]_vars /\ []ReplayedFromFull(TRUE)

\* a full payload, then a delta of dailyHoneyGainG, then a delta of
\* temperature with an empty recordedAt: both deltas are in, recordedAt is
\* still the full payload's
C20_Witness ==
    /\ Len(received) = 3
    /\ "full" \in DOMAIN received[1] /\ received[1].full.id = "a"
    /\ received[2] = [data |-> [dailyHoneyGainG |-> 20]]
    /\ received[3] = [data |-> [temperature |-> 38, recordedAt |-> isoString("")]]
    /\ lastTelemetry = [id |-> "a", recordedAt |-> dateOf("T1"), temperature |-> 38,
                        dailyHoneyGainG |-> 20]

(***************************************************************************)
(* Properties of the fixed-centre gauge and of the weight metric           *)
(* (SpecGauge).                                                            *)
(***************************************************************************)
GaugeDone == layout # NULL /\ layout.result # NULL

RatSub(a, b) == [num |-> a.num * b.den - b.num * a.den, den |-> a.den * b.den]

\* the severity a segment label stands for
labelSeverity(label) ==
    IF label = "Normal" THEN "safe" ELSE IF label = "Warning" THEN "warning" ELSE "critical"

\* the segments that hold the position strictly inside
segmentsAround(percent, segments) ==
    { i \in 1..Len(segments) :
          RatLt(segments[i].start, percent) /\ RatLt(percent, segments[i].stop) }

\* C21: for every value and every threshold set the position of the
\* fixed-centre gauge (calculateSimplePercent, calculateRangeBasedPercent)
\* lies strictly inside one of the equal-width segments of
\* generateSimpleSegments / generateRangeBasedSegments, and the label of
\* that segment is the severity calculateSeverity returns.
C21_FixedCentreAgreement ==
    (GaugeDone /\ layout.metric # "weight") =>
        LET metricEntry == layout.result.transform
            around == segmentsAround(metricEntry.percent, metricEntry.segments)
        IN  /\ \A i, j \in 1..Len(metricEntry.segments) :
                   RatEq(RatSub(metricEntry.segments[i].stop, metricEntry.segments[i].start),
                         RatSub(metricEntry.segments[j].stop, metricEntry.segments[j].start))
            /\ around # {}
            /\ \A i \in around :
                   labelSeverity(metricEntry.segments[i].label) = metricEntry.severity

\* the segments whose interval [start, stop] holds the position
segmentsHolding(percent, segments) ==
    { i \in 1..Len(segments) :
          RatLe(segments[i].start, percent) /\ RatLe(percent, segments[i].stop) }

\* C23: for every weight value and every threshold set the severity of the
\* weight metric is 'safe', in the derived store and in
\* transformTelemetryToMetrics, also when the position lies in a segment of
\* the weight gauge (split at 24, 28, 52 and 56 kg) labelled Warning or
\* Critical.
C23_WeightSeverityIgnoresGauge ==
    (GaugeDone /\ layout.metric = "weight") =>
        /\ layout.result.store.severity = "safe"
        /\ layout.result.transform.severity = "safe"
        /\ layout.result.store.segments =
               generateRangeSegments(20, 60, 24, 28, 52, 56)

\* a weight of 22 kg: both gauges show the pointer in a Critical segment
\* only, and the severity is safe
C23_Witness ==
    /\ GaugeDone /\ layout.metric = "weight" /\ layout.value = 22
    /\ layout.result.store.severity = "safe"
    /\ \A i \in segmentsHolding(layout.result.store.percent, layout.result.store.segments) :
           layout.result.store.segments[i].label = "Critical"
    /\ \A i \in segmentsHolding(layout.result.transform.percent,
                                  layout.result.transform.segments) :
           layout.result.transform.segments[i].label = "Critical"
    /\ segmentsHolding(layout.result.store.percent, layout.result.store.segments) # {}
    /\ segmentsHolding(layout.result.transform.percent,
                       layout.result.transform.segments) # {}

\* the thresholds of the call come from autoAdjustRangeThresholds applied
\* to a validated normal range
AutoAdjustedRange ==
    /\ GaugeDone /\ layout.metric \in {"temp", "humidity", "activity"}
    /\ layout.thresholds \in AutoAdjustedSets(layout.metric)

\* safe inside normal, warning inside [warningMin, warningMax], else critical
warningRangeSeverity(value, th) ==
    IF th.normalMin <= value /\ value <= th.normalMax THEN "safe"
    ELSE IF th.warningMin <= value /\ value <= th.warningMax THEN "warning"
    ELSE "critical"

\* C25: for every range metric and every threshold set whose warning and
\* critical bounds are autoAdjustRangeThresholds of a validated normal
\* range, the store's calculateSeverity and the envelope-based
\* calculateSeverity of telemetry-transform.ts return the same severity for
\* every value.
C25_ClassifiersAgreeOnAdjustedSets ==
    AutoAdjustedRange =>
        /\ layout.result.store.severity = layout.result.transform.severity
        /\ layout.result.store.severity =
               warningRangeSeverity(layout.value, layout.thresholds)
        /\ layout.thresholds.criticalMin = layout.thresholds.warningMin
        /\ layout.thresholds.criticalMax = layout.thresholds.warningMax

\* a value between normalMax and warningMax of an auto-adjusted set: both
\* classifiers say warning
C25_Witness ==
    /\ AutoAdjustedRange
    /\ layout.thresholds.normalMax < layout.value
    /\ layout.value < layout.thresholds.warningMax
    /\ layout.result.store.severity = "warning"
    /\ layout.result.transform.severity = "warning"

(***************************************************************************)
(* The configurations page: submission ordering (SpecPage).                *)
(***************************************************************************)
\* a step in which an updateThresholds request leaves
RequestIssued == request' # NULL /\ request' # request

\* a step of handleUpdate whose validation reported an error
ValidationFailed == lastCall("add")' /\ called' # called /\ called'.id = nextToastId
                        /\ toasts'[Len(toasts')].title = "Validation Error"

\* a step in which the pending request resolved / was rejected
Resolved == request # NULL /\ request' = NULL /\ response'.ok

Rejected == request # NULL /\ request' = NULL /\ ~response'.ok

\* C22 (ordering): a request is issued only by confirming an open dialog,
\* and the dialog is opened only by a handleUpdate whose validation
\* returned no errors; a handleUpdate whose validation reports an error
\* opens no dialog and sends no request.
C22_RequestOnlyAfterValidationAndConfirm ==
    [][ /\ RequestIssued =>
            /\ showConfirmDialog /\ ~showConfirmDialog' /\ ~updating /\ updating'
            /\ request' = [weightWarningDailyLossG |-> weightMonitoring]
                             @@ transformMetricsToThresholds(id, bound)
        /\ (~showConfirmDialog /\ showConfirmDialog') =>
            /\ Len(validateMetrics(id, bound)) = 0
            /\ hasChanges
            /\ UNCHANGED <<request, toasts>>
        /\ (~showConfirmDialog /\ hasChanges /\ Len(validateMetrics(id, bound)) > 0) =>
            /\ ~showConfirmDialog'
            /\ UNCHANGED request
        /\ ValidationFailed => (~showConfirmDialog' /\ UNCHANGED request) ]_vars

\* C22 (outcomes): on a successful response metrics and originalMetrics are
\* both the server's thresholds, so hasChanges is false; on a failed
\* request both keep their values; updating is false after either outcome,
\* and it is true exactly while a request is pending.
C22_UpdateOutcomes ==
    [][ /\ Resolved =>
            /\ bound' = metricsOfThresholds(id, response'.data)
            /\ originalMetrics' = metricsOfThresholds(id, response'.data)
            /\ response'.data \in ServerThresholds(id, request)
            /\ ~hasChanges'
            /\ ~updating'
        /\ Rejected =>
            /\ bound' = bound /\ originalMetrics' = originalMetrics
            /\ ~updating'
        /\ updating' = (request' # NULL) ]_vars

\* C22: submission ordering on the configurations page: the request leaves
\* only after a validation without errors and the user's confirmation, a
\* validation error opens no dialog and sends nothing, a success replaces
\* metrics and originalMetrics by the server's thresholds, a failure keeps
\* both, and updating is false after either outcome.
C22_SubmissionOrdering ==
    C22_RequestOnlyAfterValidationAndConfirm /\ C22_UpdateOutcomes

\* an edited entry was confirmed and the server answered with thresholds
\* other than the ones sent: the page shows the server's
C22_Witness ==
    /\ response # NULL /\ response.ok
    /\ request = NULL /\ ~updating
    /\ bound = metricsOfThresholds(id, response.data)
    /\ bound.warningMin # warningRange[1]
    /\ lastCall("add") /\ called.description = "Threshold configurations updated successfully."

(***************************************************************************)
(* The warning and critical sliders of auto-adjusted metrics (SpecSliders).*)
(***************************************************************************)
\* the bounds the topology's auto-adjust function gives for a normal range,
\* or NULL when it throws
topologyAdjusted(metricId, normalMin, normalMax, lo, hi) ==
    LET adjusted ==
            IF cfg[metricId].type = "ascending"
            THEN autoAdjustAscendingThresholds(metricId, normalMax, hi)
            ELSE IF cfg[metricId].type = "inverted"
            THEN autoAdjustInvertedThresholds(metricId, normalMin, lo)
            ELSE autoAdjustRangeThresholds(metricId, normalMin, normalMax, lo, hi)
    IN  IF "error" \in DOMAIN adjusted THEN NULL
        ELSE [warningMin |-> adjusted.warningMin, warningMax |-> adjusted.warningMax,
              criticalMin |-> adjusted.criticalMin, criticalMax |-> adjusted.criticalMax]

\* the warning and critical bounds of the parent
outerBounds(props) ==
    [warningMin |-> props.warningMin, warningMax |-> props.warningMax,
     criticalMin |-> props.criticalMin, criticalMax |-> props.criticalMax]

\* the warning or critical slider reported a value in this step
SliderReported == sliderInput' # sliderInput

\* C24: for a metric with allowManualThresholds false, onWarningSliderChange
\* and onCriticalSliderChange leave the warning range, the critical range
\* and the bound thresholds unchanged; every slider event either keeps the
\* warning and critical bounds or sets them to the output of the topology's
\* auto-adjust function for the normal range just accepted, so after any
\* sequence of events they are the initial ones or that output for the
\* last accepted normal range.
C24_ManualSlidersIgnored ==
    [][ (variant = "centralized" /\ isAutoAdjusted(id)) =>
            /\ SliderReported =>
                   UNCHANGED <<normalRange, warningRange, criticalRange, bound,
                               validationErrors>>
            /\ \/ /\ UNCHANGED <<warningRange, criticalRange>>
                  /\ bound' = bound
               \/ /\ validateNormalRange(id, bound'.normalMin, bound'.normalMax,
                                         min, max).valid
                  /\ normalRange' = <<bound'.normalMin, bound'.normalMax>>
                  /\ outerBounds(bound') =
                        topologyAdjusted(id, bound'.normalMin, bound'.normalMax, min, max)
                  /\ bound' = boundProps(normalRange', warningRange', criticalRange') ]_vars

\* after an accepted edit of the normal range the warning slider reported a
\* pair other than the adjusted warning range, which is still in place
C24_Witness ==
    /\ variant = "centralized" /\ isAutoAdjusted(id)
    /\ sliderInput # NULL /\ sliderInput.slider = "warning"
    /\ sliderInput.value # warningRange
    /\ validationErrors = <<>>
    /\ bound = boundProps(normalRange, warningRange, criticalRange)
    /\ outerBounds(bound) = topologyAdjusted(id, normalRange[1], normalRange[2], min, max)
    /\ warningRange # <<min, max>> /\ warningRange # normalRange

(***************************************************************************)
(* The dashboard's raw value stores (SpecDashboard).                       *)
(***************************************************************************)
\* the listening dashboard handled a delta in this step
DeltaApplied ==
    /\ listening # {} /\ received' # received
    /\ "full" \notin DOMAIN received'[Len(received')]

\* the value a store takes from the field of a telemetry object
storedValue(field, telemetry) ==
    IF field = "recordedAt" THEN toDate(telemetry[field]) ELSE telemetry[field]

\* the numeric stores follow the delta: present fields are set, absent ones kept
C26_NumericStoresFollowDelta ==
    [][ DeltaApplied =>
            \A field \in StoreFields \ {"recordedAt"} :
                telemetryStores'[field] =
                    IF field \in DOMAIN received'[Len(received')].data
                    THEN received'[Len(received')].data[field]
                    ELSE telemetryStores[field] ]_vars

\* C26: a 'telemetry-update' event carrying a delta sets exactly the raw
\* value stores of the fields present in the delta; the stores of absent
\* fields, recordedAt included, keep their previous value.
C26_DeltaSetsPresentFieldsOnly ==
    [][ DeltaApplied =>
            \A field \in StoreFields :
                telemetryStores'[field] =
                    IF field \in DOMAIN received'[Len(received')].data
                    THEN storedValue(field, received'[Len(received')].data)
                    ELSE telemetryStores[field] ]_vars

\* the stores agree with the fields lastTelemetry has
StoresMatchLastTelemetry ==
    \A field \in StoreFields \cap DOMAIN lastTelemetry :
        telemetryStores[field] = lastTelemetry[field]

\* C27: whenever websocketStore.lastTelemetry is non-null every raw value
\* store of the dashboard equals the corresponding field of lastTelemetry,
\* and a delta the service does not merge because lastTelemetry is null is
\* not applied to the stores either.
C27_StoresAgreeWithLastTelemetry ==
    /\ [](lastTelemetry # NULL => StoresMatchLastTelemetry)
    /\ [][ (received' # received /\ lastTelemetry' = NULL) =>
               telemetryStores' = telemetryStores ]_vars

(***************************************************************************)
(* The connection of the socket service (SpecConnection).                  *)
(***************************************************************************)
\* C28: after any sequence of connect(), disconnect() and socket events at
\* most one socket created by the service is live with handlers registered
\* (connect() while the previous socket is still connecting or reconnecting
\* creates no second one), so each telemetry message is handled once.
C28_SingleLiveSocket ==
    /\ Cardinality(liveSockets) <= 1
    /\ Len(received) <= broadcasts

\* C29: in every state of the websocket store error is non-null exactly
\* when status is 'error'; every setStatus clears error; setLastTelemetry
\* changes neither status nor error.
C29_ErrorIffErrorStatus ==
    /\ [](error # NULL <=> status = "error")
    /\ [][ (status' # status /\ status' # "error") => error' = NULL ]_vars
    /\ [][ (lastTelemetry' # lastTelemetry /\ lastTelemetry' # NULL) =>
               UNCHANGED <<status, error>> ]_vars

\* telemetry was merged while connected, then the connection was lost and
\* an attempt to reconnect failed: the error is set, lastTelemetry is kept
C29_Witness ==
    /\ status = "error" /\ error = [message |-> "Connection failed"]
    /\ lastTelemetry # NULL /\ lastTelemetry.temperature = 36
    /\ reconnectAttempts = 1

====
